---- MODULE Spec2Model ----
(***************************************************************************)
(* Stream normalisation of the chat front end: the per-backend chunk       *)
(* parsers (frame -> canonical StreamEvents) and the segment assembler of  *)
(* ChatInterface.sendMessage (canonical events -> ordered segments and     *)
(* tool-call states).                                                      *)
(*                                                                         *)
(* Strings that the code concatenates (text content, tool input) are       *)
(* sequences of characters; a + b is a \o b.  Objects that the code shares *)
(* by reference (the ToolCall held both by a tool segment and by the       *)
(* tool-call map) live in a heap, the sequence toolCalls, and are named by *)
(* their index in it.                                                      *)
(***************************************************************************)
EXTENDS Integers, Sequences, FiniteSets, TLC

\* ------------------------------------------------------------------ bounds
MaxEvents == 4      \* canonical events delivered to the callback in one turn
MaxFrames == 4      \* lines handed to a chunk parser in one turn

\* ----------------------------------------------------------- value domains
ToolIds == {"t1", "t2"}
ToolNames == {"calc", "f"}
Texts == {<<>>, <<"a">>, <<"b">>}
Inputs == {<<"x">>, <<"y">>}
ToolResults == {"2", "ok"}
StopReasons == {"end_turn", "max_tokens"}
Roles == {"assistant", "user"}

\* ------------------------------------------------- StreamEvent (tagged union)
TextEvent(c) == [type |-> "text", content |-> c]
ToolUseStartEvent(id, nm) == [type |-> "tool_use_start", toolUseId |-> id, name |-> nm]
ToolUseDeltaEvent(id, inp) == [type |-> "tool_use_delta", toolUseId |-> id, input |-> inp]
ToolResultEvent(id, res) == [type |-> "tool_result", toolUseId |-> id, result |-> res]
MessageEvent(r) == [type |-> "message", role |-> r]
ResultEvent(sr) == [type |-> "result", stopReason |-> sr]
LifecycleEvent(e) == [type |-> "lifecycle", event |-> e]

NoEvent == [type |-> "none"]

\* ------------------------------------------------------------------- state
VARIABLES
    segments,       \* sendMessage: const segments: MessageSegment[]
    toolCalls,      \* heap of the ToolCall objects created in this turn
    toolCallMap,    \* sendMessage: toolCallMap, toolUseId -> ToolCall (0: no entry)
    messages,       \* component state: messages
    error,          \* component state: error (Null or the text set by setError)
    pc,             \* where sendMessage stands: "invoking" (awaiting client.invoke) or "failed"
    parser,         \* the ChunkParser the client feeds lines to ("none": events are delivered as such)
    currentToolUseId,   \* converse.ts: module-level let currentToolUseId
    startedIds,     \* Schema-A parser: the toolUseIds whose start was emitted
    toolAtIndex,    \* Schema-C parser: content index -> toolUseId started there ("": none)
    isLoading,      \* useGlobal(): isLoading
    partial,        \* stream driver: the line received in part, not yet terminated
    other,          \* a second sendMessage in flight: its own segments and toolCallMap
    hist            \* history of the turn (what was processed so far)

vars == <<segments, toolCalls, toolCallMap, messages, error, pc, parser,
          currentToolUseId, startedIds, toolAtIndex, isLoading, partial, other, hist>>

Null == "null"
\* JavaScript's undefined where a string is expected
Undefined == "undefined"
FailedToGetResponse == "Failed to get response"
Apology == <<"I apologize, but I encountered an error processing your request. Please try again.">>

\* The state one run of the callback reads and writes; thrown: an exception
\* left the callback.
Turn == [segments |-> segments, toolCalls |-> toolCalls,
         toolCallMap |-> toolCallMap, messages |-> messages, thrown |-> FALSE]

\* --------------------------------------------------------------- assembler
\* ToolCall as created by case "tool_use_start"; result?: is absent ({}).
NewToolCall(id, nm) ==
    [toolUseId |-> id, name |-> nm, input |-> <<>>, result |-> {}, status |-> "streaming"]

TextSegment(c) == [type |-> "text", content |-> c]
ToolSegment(ref) == [type |-> "tool", toolCall |-> ref]

RECURSIVE JoinText(_)
\* segments.filter(type === "text").map(content).join("")
JoinText(segs) ==
    IF segs = <<>> THEN <<>>
    ELSE (IF Head(segs).type = "text" THEN Head(segs).content ELSE <<>>)
         \o JoinText(Tail(segs))

\* updateMessage(): the last message gets the joined text and a copy of the
\* segment array; the copy holds the same segment objects, named by position.
\* On an empty list updated[-1] is no element of the array: the list stays
\* empty.
UpdateMessage(t) ==
    IF t.messages = <<>> THEN t
    ELSE [t EXCEPT !.messages[Len(t.messages)] =
            [@ EXCEPT !.content = JoinText(t.segments),
                      !.hasSegments = TRUE,
                      !.segments = [i \in 1..Len(t.segments) |-> i]]]

\* toolCallMap.get(id): 0 stands for undefined.
MapGet(t, id) == IF id \in DOMAIN t.toolCallMap THEN t.toolCallMap[id] ELSE 0

\* toolCallMap.values(): the ToolCall objects the map holds.
MapValues(t) == {t.toolCallMap[id] : id \in ToolIds} \ {0}

\* for (const tc of toolCallMap.values()) if (tc.status in from) tc.status = to
Sweep(t, from, to) ==
    [t EXCEPT !.toolCalls =
        [i \in DOMAIN t.toolCalls |->
            IF i \in MapValues(t) /\ t.toolCalls[i].status \in from
            THEN [t.toolCalls[i] EXCEPT !.status = to]
            ELSE t.toolCalls[i]]]

LastIsType(t, ty) ==
    /\ Len(t.segments) > 0
    /\ t.segments[Len(t.segments)].type = ty

\* OnText without the sweep of the tool-call map.
OnTextNoSweep(t, content) ==
    UpdateMessage(IF LastIsType(t, "text")
                  THEN [t EXCEPT !.segments[Len(t.segments)].content = @ \o content]
                  ELSE [t EXCEPT !.segments = Append(@, TextSegment(content))])

\* OnText that opens a text segment for the content and one more after it.
OnTextPushTwice(t, content) ==
    LET swept == IF LastIsType(t, "tool")
                 THEN Sweep(t, {"streaming", "executing"}, "complete")
                 ELSE t
    IN  UpdateMessage(IF LastIsType(swept, "text")
                      THEN [swept EXCEPT !.segments[Len(swept.segments)].content = @ \o content]
                      ELSE [swept EXCEPT !.segments = @ \o <<TextSegment(content), TextSegment(<<>>)>>])

\* OnText whose sweep passes over the executing calls.
OnTextSweepStreaming(t, content) ==
    LET swept == IF LastIsType(t, "tool")
                 THEN Sweep(t, {"streaming"}, "complete")
                 ELSE t
        appended == IF LastIsType(swept, "text")
                    THEN [swept EXCEPT !.segments[Len(swept.segments)].content = @ \o content]
                    ELSE [swept EXCEPT !.segments = Append(@, TextSegment(content))]
    IN  UpdateMessage(appended)

\* OnText with last.content = event.content in place of +=.
OnTextAssign(t, content) ==
    LET swept == IF LastIsType(t, "tool")
                 THEN Sweep(t, {"streaming", "executing"}, "complete")
                 ELSE t
        appended == IF LastIsType(swept, "text")
                    THEN [swept EXCEPT !.segments[Len(swept.segments)].content = content]
                    ELSE [swept EXCEPT !.segments = Append(@, TextSegment(content))]
    IN  UpdateMessage(appended)

\* OnText that writes the new text segment over the last segment in place of
\* pushing it.
OnTextOverwrite(t, content) ==
    LET swept == IF LastIsType(t, "tool")
                 THEN Sweep(t, {"streaming", "executing"}, "complete")
                 ELSE t
        n == Len(swept.segments)
        appended == IF LastIsType(swept, "text")
                    THEN [swept EXCEPT !.segments[n].content = @ \o content]
                    ELSE IF n = 0
                    THEN [swept EXCEPT !.segments = Append(@, TextSegment(content))]
                    ELSE [swept EXCEPT !.segments[n] = TextSegment(content)]
    IN  UpdateMessage(appended)

\* OnText that pushes a new text segment for every text event.
OnTextAlwaysPush(t, content) ==
    LET swept == IF LastIsType(t, "tool")
                 THEN Sweep(t, {"streaming", "executing"}, "complete")
                 ELSE t
    IN  UpdateMessage([swept EXCEPT !.segments = Append(@, TextSegment(content))])

\* case "text"
OnText(t, content) ==
    LET swept == IF LastIsType(t, "tool")
                 THEN Sweep(t, {"streaming", "executing"}, "complete")
                 ELSE t
        appended == IF LastIsType(swept, "text")
                    THEN [swept EXCEPT !.segments[Len(swept.segments)].content = @ \o content]
                    ELSE [swept EXCEPT !.segments = Append(@, TextSegment(content))]
    IN  UpdateMessage(appended)

\* case "tool_use_start"
OnToolUseStart(t, id, nm) ==
    LET ref == Len(t.toolCalls) + 1
    IN  UpdateMessage([t EXCEPT !.toolCalls = Append(@, NewToolCall(id, nm)),
                                !.toolCallMap[id] = ref,
                                !.segments = Append(@, ToolSegment(ref))])

\* OnToolUseDelta without if (tc): tc.input of undefined throws.
OnToolUseDeltaUnguarded(t, id, inp) ==
    LET ref == MapGet(t, id)
    IN  IF ref # 0
        THEN UpdateMessage([t EXCEPT !.toolCalls[ref].input = @ \o inp])
        ELSE [t EXCEPT !.thrown = TRUE]

\* OnToolUseDelta that puts the delta in front of the accumulated input.
OnToolUseDeltaPrepend(t, id, inp) ==
    LET ref == MapGet(t, id)
    IN  UpdateMessage(IF ref # 0
                      THEN [t EXCEPT !.toolCalls[ref].input = inp \o @]
                      ELSE t)

\* OnToolUseDelta that leaves a complete call alone.
OnToolUseDeltaUnlessComplete(t, id, inp) ==
    LET ref == MapGet(t, id)
    IN  UpdateMessage(IF ref # 0 /\ t.toolCalls[ref].status # "complete"
                      THEN [t EXCEPT !.toolCalls[ref].input = @ \o inp]
                      ELSE t)

\* case "tool_use_delta"
OnToolUseDelta(t, id, inp) ==
    LET ref == MapGet(t, id)
    IN  UpdateMessage(IF ref # 0
                      THEN [t EXCEPT !.toolCalls[ref].input = @ \o inp]
                      ELSE t)

\* OnToolResult that stores the result and leaves the status.
OnToolResultKeepStatus(t, id, res) ==
    LET ref == MapGet(t, id)
    IN  UpdateMessage(IF ref # 0
                      THEN [t EXCEPT !.toolCalls[ref].result = {res}]
                      ELSE t)

\* OnToolResult that leaves a call alone once it is complete.
OnToolResultUnlessComplete(t, id, res) ==
    LET ref == MapGet(t, id)
    IN  UpdateMessage(IF ref # 0 /\ t.toolCalls[ref].status # "complete"
                      THEN [t EXCEPT !.toolCalls[ref].result = {res},
                                     !.toolCalls[ref].status = "complete"]
                      ELSE t)

\* case "tool_result"
OnToolResult(t, id, res) ==
    LET ref == MapGet(t, id)
    IN  UpdateMessage(IF ref # 0
                      THEN [t EXCEPT !.toolCalls[ref].result = {res},
                                     !.toolCalls[ref].status = "complete"]
                      ELSE t)

\* OnMessage whose sweep takes the executing calls on to complete.
OnMessageCompletes(t, role) ==
    IF role = "assistant"
    THEN UpdateMessage(Sweep(Sweep(t, {"executing"}, "complete"), {"streaming"}, "executing"))
    ELSE t

\* case "message"
OnMessage(t, role) ==
    IF role = "assistant"
    THEN UpdateMessage(Sweep(t, {"streaming"}, "executing"))
    ELSE t

\* HandleEvent with a case "result" that completes the open tool calls.
HandleEventResultCompletes(t, ev) ==
    CASE ev.type = "text" -> OnText(t, ev.content)
      [] ev.type = "tool_use_start" -> OnToolUseStart(t, ev.toolUseId, ev.name)
      [] ev.type = "tool_use_delta" -> OnToolUseDelta(t, ev.toolUseId, ev.input)
      [] ev.type = "tool_result" -> OnToolResult(t, ev.toolUseId, ev.result)
      [] ev.type = "message" -> OnMessage(t, ev.role)
      [] ev.type = "result" -> UpdateMessage(Sweep(t, {"streaming", "executing"}, "complete"))
      [] OTHER -> t

\* The callback handed to client.invoke: switch (event.type).
HandleEvent(t, ev) ==
    CASE ev.type = "text" -> OnText(t, ev.content)
      [] ev.type = "tool_use_start" -> OnToolUseStart(t, ev.toolUseId, ev.name)
      [] ev.type = "tool_use_delta" -> OnToolUseDelta(t, ev.toolUseId, ev.input)
      [] ev.type = "tool_result" -> OnToolResult(t, ev.toolUseId, ev.result)
      [] ev.type = "message" -> OnMessage(t, ev.role)
      [] OTHER -> t

\* ----------------------------------------------------------------- history
\* What has been processed so far in the turn; written by every step and read
\* only by the properties.
NoLine == [prefix |-> FALSE, kind |-> "none"]

InitHist ==
    [n |-> 0,                 \* events delivered to the callback
     lastEv |-> NoEvent,      \* the event delivered last
     textIn |-> <<>>,         \* content of all text events, in arrival order
     started |-> {},          \* ids of the tool_use_start events delivered
     resulted |-> {},         \* ids of the tool_result events delivered
     textAfter |-> {},        \* started ids with a text event delivered after the start
     lastTextSeg |-> 0,       \* position of the segment that took the last text event
     sinceText |-> {},        \* types of the events delivered since the last text event
     startCount |-> [id \in ToolIds |-> 0],   \* tool_use_start events delivered, per id
     deltaIn |-> [id \in ToolIds |-> <<>>],   \* input of the tool_use_delta events delivered
                                              \* after a start of the id, in arrival order
     frames |-> 0,            \* lines handed to the parser
     lastLine |-> NoLine,     \* the line parsed last
     emitted |-> <<>>,        \* the events the parser emitted for that line
     valid |-> TRUE,          \* every line so far is a valid frame of the schema
     startFrames |-> [id \in ToolIds |-> 0],    \* frames announcing a tool use, per id
     startsEmitted |-> [id \in ToolIds |-> 0],  \* tool_use_start events emitted, per id
     deltasEmitted |-> [id \in ToolIds |-> 0],  \* tool_use_delta events emitted, per id
     lastAnnounced |-> "",    \* toolUseId of the last frame announcing a tool use ("": none)
     pattern |-> "strands-single-agent",  \* the agentPattern the client was constructed with
     refused |-> FALSE,       \* sendMessage was called and returned for want of a client
     cleared |-> FALSE,       \* startNewChat ran while a stream was in flight
     script |-> <<>>,         \* the lines of a scenario run, in arrival order
     turn |-> 0,              \* sendMessage calls before this one
     token |-> TRUE,          \* sendMessage found an access token
     invoked |-> TRUE,        \* this turn called client.invoke
     earlier |-> {},          \* toolUseIds the parser announced in earlier turns
     resultSeen |-> FALSE,    \* a result event reached the callback in this turn
     closed |-> "no",         \* how the stream ended: "no", "upstream", "caller", "failure"
     dropped |-> NoLine,      \* the line that was received in part when the stream ended
     \* per concurrent turn: the events emitted for its last line, and what its
     \* parser and assembler would hold had its lines been the only ones
     emittedOf |-> [k \in {"A", "B"} |-> <<>>],
     alone |-> [k \in {"A", "B"} |->
                  [cur |-> "", segments |-> <<>>, toolCalls |-> <<>>,
                   toolCallMap |-> [id \in ToolIds |-> 0], emitted |-> <<>>]]]

\* t2 is the turn after ev was handled.
HistStep(h, t2, ev) ==
    [h EXCEPT
     !.n = @ + 1,
     !.lastEv = ev,
     !.textIn = IF ev.type = "text" THEN @ \o ev.content ELSE @,
     !.started = IF ev.type = "tool_use_start" THEN @ \cup {ev.toolUseId} ELSE @,
     !.resulted = IF ev.type = "tool_result" THEN @ \cup {ev.toolUseId} ELSE @,
     !.textAfter = IF ev.type = "text" THEN h.started ELSE @,
     !.lastTextSeg = IF ev.type = "text" THEN Len(t2.segments) ELSE @,
     !.sinceText = IF ev.type = "text" THEN {} ELSE @ \cup {ev.type},
     !.startCount = IF ev.type = "tool_use_start"
                    THEN [@ EXCEPT ![ev.toolUseId] = @ + 1] ELSE @,
     !.deltaIn = IF ev.type = "tool_use_delta" /\ ev.toolUseId \in ToolIds
                 THEN (IF h.startCount[ev.toolUseId] > 0
                       THEN [@ EXCEPT ![ev.toolUseId] = @ \o ev.input] ELSE @)
                 ELSE @]

\* ------------------------------------------------------------ chunk parsers
\* A line of the stream, by what the parser tests of it: prefix is
\* line.startsWith("data: "); kind is what line.substring(6).trim() holds:
\* nothing ("blank"), text that JSON.parse rejects ("malformed"), or JSON that
\* parses to null, to a number/string/boolean ("scalar") or to an object.
\* Of an object the fields are the paths the parser reads; an optional value
\* is a set, {} when the path is absent or undefined.

\* Schema-B (raw Converse events, nested under json.event).
ConverseBase ==
    [prefix |-> TRUE, kind |-> "object", hasEvent |-> TRUE,
     text |-> {},            \* event.contentBlockDelta?.delta?.text
     toolUse |-> {},         \* event.contentBlockStart?.start?.toolUse
     input |-> {},           \* event.contentBlockDelta?.delta?.toolUse?.input
     stopReason |-> {},      \* event.messageStop?.stopReason
     messageStart |-> FALSE, \* event.messageStart
     result |-> "absent",    \* json.result: "absent", "object" or "true"
     stop_reason |-> {}]     \* json.result.stop_reason

ToolUse(id, nm) == [toolUseId |-> id, name |-> nm]

\* The frame shapes of the schema, one sub-structure each.
ConverseFrames ==
    {[ConverseBase EXCEPT !.messageStart = TRUE]}
    \cup {[ConverseBase EXCEPT !.toolUse = {ToolUse(id, nm)}] : id \in ToolIds, nm \in ToolNames}
    \cup {[ConverseBase EXCEPT !.text = {c}] : c \in Texts}
    \cup {[ConverseBase EXCEPT !.input = {i}] : i \in Inputs \cup {<<>>}}
    \cup {[ConverseBase EXCEPT !.stopReason = {sr}] : sr \in StopReasons}
    \cup {ConverseBase}     \* contentBlockStop, metadata
    \cup {[ConverseBase EXCEPT !.hasEvent = FALSE, !.result = "object", !.stop_reason = {"end_turn"}],
          [ConverseBase EXCEPT !.hasEvent = FALSE, !.result = "object"],
          [ConverseBase EXCEPT !.hasEvent = FALSE, !.result = "true"]}

\* Frames that hold two sub-structures at once.
ConverseMixed ==
    {[ConverseBase EXCEPT !.text = {<<"a">>}, !.toolUse = {ToolUse("t1", "calc")}],
     [ConverseBase EXCEPT !.toolUse = {ToolUse("t2", "f")}, !.input = {<<"x">>}],
     [ConverseBase EXCEPT !.text = {<<"a">>}, !.input = {<<"x">>}],
     [ConverseBase EXCEPT !.input = {<<"y">>}, !.stopReason = {"end_turn"}],
     [ConverseBase EXCEPT !.stopReason = {"tool_use"}, !.messageStart = TRUE],
     [ConverseBase EXCEPT !.result = "object", !.stop_reason = {"end_turn"}]}

\* Lines that carry no frame: no payload, broken JSON, JSON that is no object,
\* and lines without the prefix (comments, keep-alives, a bare payload).
ConverseNoise ==
    {[ConverseBase EXCEPT !.kind = k, !.hasEvent = FALSE] : k \in {"blank", "malformed", "null", "scalar"}}
    \cup {[ConverseBase EXCEPT !.prefix = FALSE, !.kind = "malformed", !.hasEvent = FALSE],
          [ConverseBase EXCEPT !.prefix = FALSE, !.text = {<<"a">>}],
          [ConverseBase EXCEPT !.prefix = FALSE, !.toolUse = {ToolUse("t1", "calc")}]}

ConverseLines == ConverseFrames \cup ConverseMixed \cup ConverseNoise

\* What one call of a ChunkParser did: the events it handed to the callback,
\* in order, the parser-local state it left, and whether it threw.
ParserOut(evs, local) == [events |-> evs, local |-> local, thrown |-> FALSE]

\* JavaScript truthiness of an optional string.
Truthy(opt) == \E v \in opt : v # <<>>
The(opt) == CHOOSE v \in opt : TRUE

\* ConverseEvents that announces the tool again with every input delta.
ConverseEventsStartPerDelta(json, cur) ==
    IF json.hasEvent
    THEN IF Truthy(json.text)
         THEN ParserOut(<<TextEvent(The(json.text))>>, cur)
         ELSE IF json.toolUse # {}
         THEN ParserOut(<<ToolUseStartEvent(The(json.toolUse).toolUseId, The(json.toolUse).name)>>,
                        The(json.toolUse).toolUseId)
         ELSE IF Truthy(json.input)
         THEN ParserOut(<<ToolUseStartEvent(cur, "calc"), ToolUseDeltaEvent(cur, The(json.input))>>, cur)
         ELSE IF json.stopReason # {}
         THEN ParserOut(<<ResultEvent(The(json.stopReason))>>, cur)
         ELSE IF json.messageStart
         THEN ParserOut(<<LifecycleEvent("message_start")>>, cur)
         ELSE ParserOut(<<>>, cur)
    ELSE IF json.result # "absent"
         THEN ParserOut(<<ResultEvent(IF json.result = "object"
                                      THEN (IF json.stop_reason # {} THEN The(json.stop_reason) ELSE Undefined)
                                      ELSE "end_turn")>>, cur)
         ELSE ParserOut(<<>>, cur)

\* ConverseEvents that keeps the first toolUseId it remembered.
ConverseEventsFirstId(json, cur) ==
    IF json.hasEvent
    THEN IF Truthy(json.text)
         THEN ParserOut(<<TextEvent(The(json.text))>>, cur)
         ELSE IF json.toolUse # {}
         THEN ParserOut(<<ToolUseStartEvent(The(json.toolUse).toolUseId, The(json.toolUse).name)>>,
                        IF cur = "" THEN The(json.toolUse).toolUseId ELSE cur)
         ELSE IF Truthy(json.input)
         THEN ParserOut(<<ToolUseDeltaEvent(cur, The(json.input))>>, cur)
         ELSE IF json.stopReason # {}
         THEN ParserOut(<<ResultEvent(The(json.stopReason))>>, cur)
         ELSE IF json.messageStart
         THEN ParserOut(<<LifecycleEvent("message_start")>>, cur)
         ELSE ParserOut(<<>>, cur)
    ELSE IF json.result # "absent"
         THEN ParserOut(<<ResultEvent(IF json.result = "object"
                                      THEN (IF json.stop_reason # {} THEN The(json.stop_reason) ELSE Undefined)
                                      ELSE "end_turn")>>, cur)
         ELSE ParserOut(<<>>, cur)

\* ConverseEvents that reports messageStart as a message with role assistant.
ConverseEventsMessageStart(json, cur) ==
    IF json.hasEvent
    THEN IF Truthy(json.text)
         THEN ParserOut(<<TextEvent(The(json.text))>>, cur)
         ELSE IF json.toolUse # {}
         THEN ParserOut(<<ToolUseStartEvent(The(json.toolUse).toolUseId, The(json.toolUse).name)>>,
                        The(json.toolUse).toolUseId)
         ELSE IF Truthy(json.input)
         THEN ParserOut(<<ToolUseDeltaEvent(cur, The(json.input))>>, cur)
         ELSE IF json.stopReason # {}
         THEN ParserOut(<<ResultEvent(The(json.stopReason))>>, cur)
         ELSE IF json.messageStart
         THEN ParserOut(<<MessageEvent("assistant")>>, cur)
         ELSE ParserOut(<<>>, cur)
    ELSE IF json.result # "absent"
         THEN ParserOut(<<ResultEvent(IF json.result = "object"
                                      THEN (IF json.stop_reason # {} THEN The(json.stop_reason) ELSE Undefined)
                                      ELSE "end_turn")>>, cur)
         ELSE ParserOut(<<>>, cur)

\* ConverseEvents that tests the tool sub-structures before the text.
ConverseEventsToolFirst(json, cur) ==
    IF json.hasEvent
    THEN IF json.toolUse # {}
         THEN ParserOut(<<ToolUseStartEvent(The(json.toolUse).toolUseId, The(json.toolUse).name)>>,
                        The(json.toolUse).toolUseId)
         ELSE IF Truthy(json.input)
         THEN ParserOut(<<ToolUseDeltaEvent(cur, The(json.input))>>, cur)
         ELSE IF Truthy(json.text)
         THEN ParserOut(<<TextEvent(The(json.text))>>, cur)
         ELSE IF json.stopReason # {}
         THEN ParserOut(<<ResultEvent(The(json.stopReason))>>, cur)
         ELSE IF json.messageStart
         THEN ParserOut(<<LifecycleEvent("message_start")>>, cur)
         ELSE ParserOut(<<>>, cur)
    ELSE IF json.result # "absent"
         THEN ParserOut(<<ResultEvent(IF json.result = "object"
                                      THEN (IF json.stop_reason # {} THEN The(json.stop_reason) ELSE Undefined)
                                      ELSE "end_turn")>>, cur)
         ELSE ParserOut(<<>>, cur)

\* The body of try { ... } of parseConverseChunk once JSON.parse returned an
\* object (or a scalar, of which every property is undefined).
ConverseEvents(json, cur) ==
    IF json.hasEvent
    THEN IF Truthy(json.text)
         THEN ParserOut(<<TextEvent(The(json.text))>>, cur)
         ELSE IF json.toolUse # {}
         THEN ParserOut(<<ToolUseStartEvent(The(json.toolUse).toolUseId, The(json.toolUse).name)>>,
                        The(json.toolUse).toolUseId)
         ELSE IF Truthy(json.input)
         THEN ParserOut(<<ToolUseDeltaEvent(cur, The(json.input))>>, cur)
         ELSE IF json.stopReason # {}
         THEN ParserOut(<<ResultEvent(The(json.stopReason))>>, cur)
         ELSE IF json.messageStart
         THEN ParserOut(<<LifecycleEvent("message_start")>>, cur)
         ELSE ParserOut(<<>>, cur)
    ELSE IF json.result # "absent"
         THEN ParserOut(<<ResultEvent(IF json.result = "object"
                                      THEN (IF json.stop_reason # {} THEN The(json.stop_reason) ELSE Undefined)
                                      ELSE "end_turn")>>, cur)
         ELSE ParserOut(<<>>, cur)

\* parseConverseChunk without try/catch: what JSON.parse throws leaves it.
ParseConverseChunkNoCatch(line, cur) ==
    IF ~line.prefix THEN ParserOut(<<>>, cur)
    ELSE IF line.kind = "blank" THEN ParserOut(<<>>, cur)
    ELSE IF line.kind \in {"malformed", "null"} THEN [ParserOut(<<>>, cur) EXCEPT !.thrown = TRUE]
    ELSE IF line.kind = "scalar" THEN ParserOut(<<>>, cur)
    ELSE ConverseEvents(line, cur)

\* parseConverseChunk without the startsWith("data: ") test.
ParseConverseChunkNoPrefix(line, cur) ==
    IF line.kind = "blank" THEN ParserOut(<<>>, cur)
    ELSE IF line.kind = "malformed" THEN ParserOut(<<>>, cur)
    ELSE IF line.kind = "null" THEN ParserOut(<<>>, cur)
    ELSE IF line.kind = "scalar" THEN ParserOut(<<>>, cur)
    ELSE ConverseEvents(line, cur)

\* parseConverseChunk(line, callback); cur is currentToolUseId.
ParseConverseChunk(line, cur) ==
    IF ~line.prefix THEN ParserOut(<<>>, cur)
    ELSE IF line.kind = "blank" THEN ParserOut(<<>>, cur)
    ELSE IF line.kind = "malformed" THEN ParserOut(<<>>, cur)  \* JSON.parse throws: catch
    ELSE IF line.kind = "null" THEN ParserOut(<<>>, cur)       \* json.event throws: catch
    ELSE IF line.kind = "scalar" THEN ParserOut(<<>>, cur)
    ELSE ConverseEvents(line, cur)

\* Schema-A (flat Strands events).
StrandsBase ==
    [prefix |-> TRUE, kind |-> "object",
     data |-> {},            \* json.data, when a string
     toolUse |-> {},         \* json.current_tool_use with json.delta.toolUse.input
     role |-> "absent",      \* json.message.role
     toolResults |-> <<>>,   \* the toolResult blocks of json.message.content
     result |-> "absent",    \* json.result: "absent", "object" or "true"
     stop_reason |-> {},     \* json.result.stop_reason
     lifecycle |-> {}]       \* init_event_loop, start_event_loop, complete

CurrentToolUse(id, nm, inp) == [toolUseId |-> id, name |-> nm, input |-> inp]
ToolResultBlock(id, res) == [toolUseId |-> id, result |-> res]

StrandsFrames ==
    {[StrandsBase EXCEPT !.data = {c}] : c \in Texts}
    \cup {[StrandsBase EXCEPT !.toolUse = {CurrentToolUse(id, nm, inp)}] :
             id \in ToolIds, nm \in {"calc"}, inp \in {<<>>, <<"x">>}}
    \cup {[StrandsBase EXCEPT !.role = "assistant"]}
    \cup {[StrandsBase EXCEPT !.role = "user", !.toolResults = trs] :
             trs \in {<<>>, <<ToolResultBlock("t1", "2")>>, <<ToolResultBlock("t2", "ok")>>,
                      <<ToolResultBlock("t1", "2"), ToolResultBlock("t2", "ok")>>}}
    \cup {[StrandsBase EXCEPT !.result = "object", !.stop_reason = {"max_tokens"}],
          [StrandsBase EXCEPT !.result = "object"],
          [StrandsBase EXCEPT !.result = "true"]}
    \cup {[StrandsBase EXCEPT !.lifecycle = {"init_event_loop"}]}

StrandsNoise ==
    {[StrandsBase EXCEPT !.kind = k] : k \in {"blank", "malformed"}}
    \cup {[StrandsBase EXCEPT !.prefix = FALSE, !.data = {<<"a">>}]}

StrandsLines == StrandsFrames \cup StrandsNoise

\* The Schema-A parser; started is the set of toolUseIds whose start it emitted.
ParseStrandsChunk(line, started) ==
    IF ~line.prefix \/ line.kind # "object" THEN ParserOut(<<>>, started)
    ELSE IF line.role = "user"
    THEN ParserOut([i \in DOMAIN line.toolResults |->
                       ToolResultEvent(line.toolResults[i].toolUseId, line.toolResults[i].result)],
                   started)
    ELSE IF line.toolUse # {}
    THEN LET tu == The(line.toolUse)
         IN  IF tu.toolUseId \notin started
             THEN ParserOut(<<ToolUseStartEvent(tu.toolUseId, tu.name)>>, started \cup {tu.toolUseId})
             ELSE ParserOut(<<ToolUseDeltaEvent(tu.toolUseId, tu.input)>>, started)
    ELSE IF line.data # {} THEN ParserOut(<<TextEvent(The(line.data))>>, started)
    ELSE IF line.role = "assistant" THEN ParserOut(<<MessageEvent("assistant")>>, started)
    ELSE IF line.result # "absent"
    THEN ParserOut(<<ResultEvent(IF line.stop_reason # {} THEN The(line.stop_reason) ELSE "end_turn")>>,
                   started)
    ELSE IF line.lifecycle # {} THEN ParserOut(<<LifecycleEvent(The(line.lifecycle))>>, started)
    ELSE ParserOut(<<>>, started)

\* Schema-C (LangChain message chunks; content is an array of typed blocks).
LanggraphBase ==
    [prefix |-> TRUE, kind |-> "object",
     type |-> "AIMessageChunk", \* json.type: "AIMessageChunk", "tool" or "other"
     content |-> <<>>,          \* json.content of an AIMessageChunk: the blocks
     stop_reason |-> {},        \* json.response_metadata?.stop_reason
     tool_call_id |-> "",       \* json.tool_call_id of a tool frame
     toolContent |-> ""]        \* json.content of a tool frame

\* Content indexes of a Schema-C frame.
Indexes == {0, 1}
NoToolAtIndex == [i \in Indexes |-> ""]

BlockTexts == {<<>>, <<"A">>, <<"B">>}

TextBlock(txt, idx) == [type |-> "text", text |-> txt, index |-> idx]
ToolUseBlock(id, nm, idx) ==
    [type |-> "tool_use", id |-> {id}, name |-> {nm}, partial_json |-> {}, index |-> idx]
PartialJsonBlock(pj, idx) ==
    [type |-> "tool_use", id |-> {}, name |-> {}, partial_json |-> {pj}, index |-> idx]

LanggraphContents ==
    {<<>>}
    \cup {<<TextBlock(a, 0)>> : a \in BlockTexts}
    \cup {<<TextBlock(a, 0), TextBlock(b, 1)>> : a, b \in BlockTexts \ {<<>>}}
    \cup {<<TextBlock(<<"A">>, 0), ToolUseBlock("t1", "calc", 1), TextBlock(<<"B">>, 1)>>,
          <<ToolUseBlock("t1", "calc", 0)>>,
          <<ToolUseBlock("t2", "f", 1)>>,
          <<PartialJsonBlock(<<"x">>, 0)>>,
          <<PartialJsonBlock(<<"y">>, 1), TextBlock(<<"B">>, 0)>>}

LanggraphFrames ==
    {[LanggraphBase EXCEPT !.content = c] : c \in LanggraphContents}
    \cup {[LanggraphBase EXCEPT !.content = <<TextBlock(<<"A">>, 0)>>, !.stop_reason = {"end_turn"}],
          [LanggraphBase EXCEPT !.stop_reason = {"tool_use"}],
          [LanggraphBase EXCEPT !.type = "tool", !.tool_call_id = "t1", !.toolContent = "2"],
          [LanggraphBase EXCEPT !.type = "tool", !.tool_call_id = "t2", !.toolContent = "ok"],
          [LanggraphBase EXCEPT !.type = "other"]}

LanggraphNoise ==
    {[LanggraphBase EXCEPT !.kind = k] : k \in {"blank", "malformed"}}
    \cup {[LanggraphBase EXCEPT !.prefix = FALSE, !.content = <<TextBlock(<<"A">>, 0)>>]}

LanggraphLines == LanggraphFrames \cup LanggraphNoise

RECURSIVE LanggraphBlocksReversed(_, _)
\* LanggraphBlocks that walks the content array from its end.
LanggraphBlocksReversed(blocks, at) ==
    IF blocks = <<>> THEN ParserOut(<<>>, at)
    ELSE LET b == Head(blocks)
             rest == LanggraphBlocksReversed(Tail(blocks), at)
         IN  IF b.type = "text" /\ b.text # <<>>
             THEN ParserOut(rest.events \o <<TextEvent(b.text)>>, rest.local)
             ELSE rest

RECURSIVE LanggraphBlocks(_, _)
\* for (const block of json.content): one event per block, in array order;
\* at is the toolUseId started last at each content index.
LanggraphBlocks(blocks, at) ==
    IF blocks = <<>> THEN ParserOut(<<>>, at)
    ELSE LET b == Head(blocks)
             evs == IF b.type = "text"
                    THEN (IF b.text # <<>> THEN <<TextEvent(b.text)>> ELSE <<>>)
                    ELSE IF b.id # {} /\ b.name # {}
                    THEN <<ToolUseStartEvent(The(b.id), The(b.name))>>
                    ELSE IF b.partial_json # {} /\ at[b.index] # ""
                    THEN <<ToolUseDeltaEvent(at[b.index], The(b.partial_json))>>
                    ELSE <<>>
             at2 == IF b.type = "tool_use" /\ b.id # {} /\ b.name # {}
                    THEN [at EXCEPT ![b.index] = The(b.id)]
                    ELSE at
             rest == LanggraphBlocks(Tail(blocks), at2)
         IN  ParserOut(evs \o rest.events, rest.local)

\* The Schema-C parser; at is its parser-local state.
ParseLanggraphChunk(line, at) ==
    IF ~line.prefix \/ line.kind # "object" THEN ParserOut(<<>>, at)
    ELSE IF line.type = "tool"
    THEN ParserOut(<<ToolResultEvent(line.tool_call_id, line.toolContent)>>, at)
    ELSE IF line.type = "AIMessageChunk"
    THEN LET out == LanggraphBlocks(line.content, at)
         IN  ParserOut(out.events \o (IF line.stop_reason # {}
                                      THEN <<ResultEvent(The(line.stop_reason))>>
                                      ELSE <<>>),
                       out.local)
    ELSE ParserOut(<<>>, at)

\* ------------------------------------------------------------- sendMessage
\* Catch that puts a fresh apology message in the last message's place.
CatchReplaceMessage(msgs) ==
    [msgs EXCEPT ![Len(msgs)] =
        [role |-> "assistant", content |-> Apology, hasSegments |-> FALSE, segments |-> <<>>]]

\* catch (err): setError and the apology as the last message's content.
Catch(msgs) == [msgs EXCEPT ![Len(msgs)].content = Apology]

\* The effect of the callback having run on ev: t2 is what it left.
Delivered(t2, h2) ==
    /\ segments' = t2.segments
    /\ toolCalls' = t2.toolCalls
    /\ toolCallMap' = t2.toolCallMap
    /\ hist' = h2
    /\ IF t2.thrown
       THEN /\ messages' = Catch(t2.messages)
            /\ error' = FailedToGetResponse
            /\ pc' = "failed"
       ELSE /\ messages' = t2.messages
            /\ UNCHANGED <<error, pc>>

\* client.invoke calls the callback with one canonical event.
Deliver(ev) ==
    LET t2 == HandleEvent(Turn, ev)
    IN  /\ Delivered(t2, HistStep(hist, t2, ev))
        /\ UNCHANGED <<parser, currentToolUseId, startedIds, toolAtIndex, isLoading, partial, other>>

CanDeliver ==
    /\ pc = "invoking"
    /\ parser = "none"
    /\ hist.n < MaxEvents

EvText ==
    \E c \in Texts : CanDeliver /\ Deliver(TextEvent(c))
EvToolUseStart ==
    \E id \in ToolIds, nm \in ToolNames : CanDeliver /\ Deliver(ToolUseStartEvent(id, nm))
EvToolUseDelta ==
    \E id \in ToolIds, inp \in Inputs : CanDeliver /\ Deliver(ToolUseDeltaEvent(id, inp))
EvToolResult ==
    \E id \in ToolIds, res \in ToolResults : CanDeliver /\ Deliver(ToolResultEvent(id, res))
EvMessage ==
    \E r \in Roles : CanDeliver /\ Deliver(MessageEvent(r))
EvResult ==
    \E sr \in StopReasons : CanDeliver /\ Deliver(ResultEvent(sr))
EvLifecycle ==
    CanDeliver /\ Deliver(LifecycleEvent("message_start"))

\* The frame announces a tool use for id: a contentBlockStart carrying a
\* toolUse (Schema-B), a current_tool_use frame (Schema-A).
Announces(line, id) ==
    /\ line.prefix
    /\ line.kind = "object"
    /\ \E tu \in line.toolUse : tu.toolUseId = id

CountType(evs, ty, id) ==
    Cardinality({i \in DOMAIN evs : evs[i].type = ty /\ evs[i].toolUseId = id})

\* The history after a line was parsed: h is the history after its events
\* were delivered, out what the parser returned.
LineHist(h, line, out, isFrame) ==
    [h EXCEPT
     !.frames = @ + 1,
     !.lastLine = line,
     !.emitted = out.events,
     !.valid = @ /\ isFrame,
     !.startFrames = [id \in ToolIds |-> IF Announces(line, id) THEN @[id] + 1 ELSE @[id]],
     !.startsEmitted = [id \in ToolIds |-> @[id] + CountType(out.events, "tool_use_start", id)],
     !.deltasEmitted = [id \in ToolIds |-> @[id] + CountType(out.events, "tool_use_delta", id)],
     !.lastAnnounced = IF \E id \in ToolIds : Announces(line, id)
                       THEN CHOOSE id \in ToolIds : Announces(line, id)
                       ELSE @]

\* Feed that hands over the first event of a line and holds back the rest.
FeedFirstOnly(t, h, evs) ==
    IF evs = <<>> THEN [turn |-> t, hist |-> h]
    ELSE LET t2 == HandleEvent(t, Head(evs))
         IN  [turn |-> [t2 EXCEPT !.thrown = FALSE], hist |-> HistStep(h, t2, Head(evs))]

RECURSIVE Feed(_, _, _)
\* The callback runs on each emitted event, in order, inside the parser's
\* try block: what it throws is caught there and ends the line.
Feed(t, h, evs) ==
    IF evs = <<>> THEN [turn |-> t, hist |-> h]
    ELSE LET t2 == HandleEvent(t, Head(evs))
             h2 == HistStep(h, t2, Head(evs))
         IN  IF t2.thrown
             THEN [turn |-> [t2 EXCEPT !.thrown = FALSE], hist |-> h2]
             ELSE Feed(t2, h2, Tail(evs))

CanParse(p) ==
    /\ pc = "invoking"
    /\ parser = p
    /\ hist.frames < MaxFrames

\* One line of the stream goes through parseConverseChunk and the callback.
ConverseLine ==
    \E line \in ConverseLines :
        /\ CanParse("converse")
        /\ LET out == ParseConverseChunk(line, currentToolUseId)
               fed == Feed(Turn, hist, out.events)
           IN  /\ Delivered([fed.turn EXCEPT !.thrown = out.thrown],
                            LineHist(fed.hist, line, out, line \in ConverseFrames \cup ConverseNoise))
               /\ currentToolUseId' = out.local
        /\ UNCHANGED <<parser, startedIds, toolAtIndex, isLoading, partial, other>>

\* One line of the stream goes through the Schema-A parser and the callback.
StrandsLine ==
    \E line \in StrandsLines :
        /\ CanParse("strands")
        /\ LET out == ParseStrandsChunk(line, startedIds)
               fed == Feed(Turn, hist, out.events)
           IN  /\ Delivered([fed.turn EXCEPT !.thrown = out.thrown],
                            LineHist(fed.hist, line, out, TRUE))
               /\ startedIds' = out.local
        /\ UNCHANGED <<parser, currentToolUseId, toolAtIndex, isLoading, partial, other>>

\* The history after a Schema-C line was parsed.
LanggraphHist(h, line, out) ==
    LET starts(id) == Cardinality({i \in DOMAIN line.content :
                          line.content[i].type = "tool_use" /\ line.content[i].id = {id}})
    IN  [h EXCEPT
         !.frames = @ + 1,
         !.lastLine = line,
         !.emitted = out.events,
         !.startFrames = [id \in ToolIds |->
             IF line.prefix /\ line.kind = "object" /\ line.type = "AIMessageChunk"
             THEN @[id] + starts(id) ELSE @[id]],
         !.startsEmitted = [id \in ToolIds |-> @[id] + CountType(out.events, "tool_use_start", id)],
         !.deltasEmitted = [id \in ToolIds |-> @[id] + CountType(out.events, "tool_use_delta", id)]]

\* One line of the stream goes through the Schema-C parser and the callback.
LanggraphLine ==
    \E line \in LanggraphLines :
        /\ CanParse("langgraph")
        /\ LET out == ParseLanggraphChunk(line, toolAtIndex)
               fed == Feed(Turn, hist, out.events)
           IN  /\ Delivered([fed.turn EXCEPT !.thrown = out.thrown],
                            LanggraphHist(fed.hist, line, out))
               /\ toolAtIndex' = out.local
        /\ UNCHANGED <<parser, currentToolUseId, startedIds, isLoading, partial, other>>

\* ---- the two end-to-end scenarios
MaxScenarioFrames == 5

Hi == <<"H", "i">>
Done == <<"d", "o", "n", "e">>
InputX1 == <<"{", "\"", "x", "\"", ":", "1", "}">>
EmptyObject == <<"{", "}">>

\* Scenario 1: the Schema-A frames of one tool round trip.
Scenario1 ==
    <<[StrandsBase EXCEPT !.data = {Hi}],
      [StrandsBase EXCEPT !.toolUse = {CurrentToolUse("t1", "calc", <<>>)}],
      [StrandsBase EXCEPT !.toolUse = {CurrentToolUse("t1", "calc", InputX1)}],
      [StrandsBase EXCEPT !.role = "user", !.toolResults = <<ToolResultBlock("t1", "2")>>],
      [StrandsBase EXCEPT !.result = "object", !.stop_reason = {"end_turn"}]>>

\* Scenario 2: the Schema-B frames of a tool use followed by text.
Scenario2 ==
    <<[ConverseBase EXCEPT !.messageStart = TRUE],
      [ConverseBase EXCEPT !.toolUse = {ToolUse("t2", "f")}],
      [ConverseBase EXCEPT !.input = {EmptyObject}],
      [ConverseBase EXCEPT !.text = {Done}]>>

Range(seq) == {seq[i] : i \in DOMAIN seq}

\* The lines a scenario run draws from: the scenario's own and a few others.
ScenarioStrandsLines ==
    Range(Scenario1)
    \cup {[StrandsBase EXCEPT !.data = {<<"a">>}],
          [StrandsBase EXCEPT !.toolUse = {CurrentToolUse("t2", "calc", <<"x">>)}],
          [StrandsBase EXCEPT !.role = "assistant"],
          [StrandsBase EXCEPT !.kind = "malformed"]}

ScenarioConverseLines ==
    Range(Scenario2)
    \cup {[ConverseBase EXCEPT !.toolUse = {ToolUse("t1", "calc")}],
          [ConverseBase EXCEPT !.input = {<<"x">>}],
          [ConverseBase EXCEPT !.stopReason = {"end_turn"}],
          [ConverseBase EXCEPT !.kind = "malformed", !.hasEvent = FALSE]}

CanParseScenario(p) ==
    /\ pc = "invoking"
    /\ parser = p
    /\ hist.frames < MaxScenarioFrames

ScenarioStrandsLine ==
    \E line \in ScenarioStrandsLines :
        /\ CanParseScenario("strands")
        /\ LET out == ParseStrandsChunk(line, startedIds)
               fed == Feed(Turn, hist, out.events)
           IN  /\ Delivered([fed.turn EXCEPT !.thrown = out.thrown],
                            [LineHist(fed.hist, line, out, TRUE) EXCEPT !.script = Append(@, line)])
               /\ startedIds' = out.local
        /\ UNCHANGED <<parser, currentToolUseId, toolAtIndex, isLoading, partial, other>>

ScenarioConverseLine ==
    \E line \in ScenarioConverseLines :
        /\ CanParseScenario("converse")
        /\ LET out == ParseConverseChunk(line, currentToolUseId)
               fed == Feed(Turn, hist, out.events)
           IN  /\ Delivered([fed.turn EXCEPT !.thrown = out.thrown],
                            [LineHist(fed.hist, line, out, TRUE) EXCEPT !.script = Append(@, line)])
               /\ currentToolUseId' = out.local
        /\ UNCHANGED <<parser, startedIds, toolAtIndex, isLoading, partial, other>>

\* No second sendMessage is in flight.
NoOther == [active |-> FALSE, segments |-> <<>>, toolCalls |-> <<>>,
            toolCallMap |-> [id \in ToolIds |-> 0]]

\* sendMessage has appended the user message and the assistant placeholder,
\* found an access token and constructed segments and toolCallMap.
InitTurn ==
    /\ segments = <<>>
    /\ toolCalls = <<>>
    /\ toolCallMap = [id \in ToolIds |-> 0]
    /\ messages = <<[role |-> "user", content |-> <<"q">>, hasSegments |-> FALSE, segments |-> <<>>],
                    [role |-> "assistant", content |-> <<>>, hasSegments |-> FALSE, segments |-> <<>>]>>
    /\ error = Null
    /\ pc = "invoking"
    /\ currentToolUseId = ""
    /\ startedIds = {}
    /\ toolAtIndex = NoToolAtIndex
    /\ isLoading = TRUE
    /\ partial = NoLine
    /\ other = NoOther
    /\ hist = InitHist

Init ==
    /\ InitTurn
    /\ parser = "none"

Next ==
    \/ EvText
    \/ EvToolUseStart
    \/ EvToolUseDelta
    \/ EvToolResult
    \/ EvMessage
    \/ EvResult
    \/ EvLifecycle

\* The assembler under every sequence of canonical events.
Spec == Init /\ [][Next]_vars

\* The client was constructed with one of the parsers.
InitParse ==
    /\ InitTurn
    /\ parser \in {"converse", "strands", "langgraph"}

NextParse ==
    \/ ConverseLine
    \/ StrandsLine
    \/ LanggraphLine

\* A parser and the assembler under every sequence of lines.
SpecParse == InitParse /\ [][NextParse]_vars

\* =============================================================== properties
\* The ToolCall objects created for toolUseId X.
CallsOf(X) == {i \in DOMAIN toolCalls : toolCalls[i].toolUseId = X}

\* A step that delivered an event of one of the types tys.
StepOf(tys) == hist'.n = hist.n + 1 /\ hist'.lastEv.type \in tys

AssemblerUnchanged == UNCHANGED <<segments, toolCalls, toolCallMap>>

NoErrorRaised == error' = Null /\ pc' = "invoking" /\ error = Null

\* C1: once tool_use_start for X and, later, a text event were processed and no
\* tool_result for X was, the tool call X is complete: the call the map holds
\* under X and the call of every tool segment created for X.
C1_ImplicitCompletion ==
    \A X \in hist.textAfter \ hist.resulted :
        /\ toolCallMap[X] # 0 => toolCalls[toolCallMap[X]].status = "complete"
        /\ \A i \in CallsOf(X) : toolCalls[i].status = "complete"

\* C2: the status of a tool call never goes back: complete is not followed by
\* streaming or executing and executing is not followed by streaming, for the
\* ToolCall object of every tool segment and for the entry of the map under
\* every toolUseId.
StatusRank(st) == CASE st = "streaming" -> 0 [] st = "executing" -> 1 [] OTHER -> 2

C2_StatusMonotone ==
    [][/\ \A i \in DOMAIN toolCalls :
             StatusRank(toolCalls[i].status) <= StatusRank(toolCalls'[i].status)
       /\ \A id \in ToolIds :
             toolCallMap[id] # 0 =>
                 StatusRank(toolCalls[toolCallMap[id]].status)
                     <= StatusRank(toolCalls'[toolCallMap'[id]].status)]_vars

\* C3: text round trip: the text segments' content, concatenated in segment
\* order, is the content of the text events concatenated in arrival order.
RECURSIVE SegmentText(_)
SegmentText(segs) ==
    IF segs = <<>> THEN <<>>
    ELSE LET front == SubSeq(segs, 1, Len(segs) - 1)
             last == segs[Len(segs)]
         IN  SegmentText(front) \o (IF last.type = "text" THEN last.content ELSE <<>>)

C3_TextRoundTrip == SegmentText(segments) = hist.textIn

\* C3 witness: text arrived on both sides of a tool segment.
C3_Witness ==
    /\ Len(segments) >= 3
    /\ segments[1].type = "text" /\ segments[1].content # <<>>
    /\ segments[2].type = "tool"
    /\ segments[3].type = "text" /\ segments[3].content # <<>>
    /\ Len(hist.textIn) >= 2

\* C4: a tool_use_delta or tool_result for a toolUseId the map does not hold
\* changes neither the segments, nor any ToolCall, nor the map, and raises
\* nothing.
C4_DanglingDropped ==
    [][(StepOf({"tool_use_delta", "tool_result"}) /\ MapGet(Turn, hist'.lastEv.toolUseId) = 0)
          => AssemblerUnchanged /\ NoErrorRaised]_vars

\* C4 witness: a dangling delta or result was processed while another call
\* and its segment existed.
C4_Witness ==
    /\ hist.lastEv.type \in {"tool_use_delta", "tool_result"}
    /\ MapGet(Turn, hist.lastEv.toolUseId) = 0
    /\ Len(segments) > 0
    /\ Len(toolCalls) > 0
    /\ pc = "invoking"

\* C5: the segment sequence is append-only: it never shrinks and every
\* segment keeps its position, its type and, for a tool segment, its
\* toolUseId and name.
C5_AppendOnly ==
    [][/\ Len(segments') >= Len(segments)
       /\ \A i \in 1..Len(segments) :
             /\ segments'[i].type = segments[i].type
             /\ segments[i].type = "tool" =>
                   /\ toolCalls'[segments'[i].toolCall].toolUseId
                          = toolCalls[segments[i].toolCall].toolUseId
                   /\ toolCalls'[segments'[i].toolCall].name
                          = toolCalls[segments[i].toolCall].name]_vars

\* C5 witness: a text segment between two tool segments of the same toolUseId.
C5_Witness ==
    /\ Len(segments) >= 3
    /\ segments[1].type = "tool"
    /\ segments[2].type = "text"
    /\ segments[3].type = "tool"
    /\ toolCalls[segments[1].toolCall].toolUseId = toolCalls[segments[3].toolCall].toolUseId

\* C6: a second tool_use_start for a toolUseId that already has a recorded
\* call is a no-op: no segment appended, the map entry not replaced, the
\* existing call unchanged.
C6_SecondStartNoOp ==
    [][(StepOf({"tool_use_start"}) /\ MapGet(Turn, hist'.lastEv.toolUseId) # 0)
          => AssemblerUnchanged]_vars

\* A text step after an earlier text event of the turn.
LaterTextStep == StepOf({"text"}) /\ hist.lastTextSeg # 0

\* C7 as stated: any non-text event between two text events sends the later
\* text into another segment than the one that took the earlier text.
C7_AnyNonTextForcesBoundary ==
    [][(LaterTextStep /\ hist.sinceText # {})
          => hist'.lastTextSeg # hist.lastTextSeg]_vars

\* C7 as amended: the later text goes into a new text segment exactly when a
\* tool_use_start was processed between the two text events; after
\* tool_use_delta, tool_result, message, result and lifecycle events alone it
\* is appended to the segment that took the earlier text.
C7_StartForcesBoundary ==
    [][LaterTextStep =>
          IF "tool_use_start" \in hist.sinceText
          THEN /\ hist'.lastTextSeg = Len(segments) + 1
               /\ Len(segments') = Len(segments) + 1
               /\ segments'[Len(segments')] = TextSegment(hist'.lastEv.content)
               /\ segments'[hist.lastTextSeg] = segments[hist.lastTextSeg]
          ELSE /\ hist'.lastTextSeg = hist.lastTextSeg
               /\ Len(segments') = Len(segments)
               /\ segments'[hist.lastTextSeg].content
                      = segments[hist.lastTextSeg].content \o hist'.lastEv.content]_vars

\* C7 witness: text, then a tool_use_start, then text that opened segment 3.
C7_Witness ==
    /\ hist.lastEv.type = "text"
    /\ hist.lastTextSeg = 3
    /\ segments[1].type = "text"
    /\ segments[2].type = "tool"
    /\ segments[3] = TextSegment(hist.lastEv.content)

\* A step that parsed one line.
LineStep == hist'.frames = hist.frames + 1

\* The line changed nothing: no event reached the callback, nothing was
\* raised, and parser-local and assembler state are as before, so that every
\* later line is parsed as it would have been without this one.
LineIgnored ==
    /\ hist'.emitted = <<>>
    /\ hist'.n = hist.n
    /\ NoErrorRaised
    /\ UNCHANGED <<currentToolUseId, startedIds, segments, toolCalls, toolCallMap, messages>>
    /\ \A l \in ConverseLines :
          ParseConverseChunk(l, currentToolUseId') = ParseConverseChunk(l, currentToolUseId)

Min(a, b) == IF a <= b THEN a ELSE b

\* C8: idempotent start detection.  Over valid frames the Schema-B parser
\* emits exactly one tool_use_start per contentBlockStart carrying a toolUse,
\* the Schema-A parser emits tool_use_start for the first current_tool_use
\* frame of an id and tool_use_delta for every later one, and an id announced
\* once gets at most one tool_use_start.
C8_IdempotentStart ==
    hist.valid =>
        \A id \in ToolIds :
            /\ parser = "converse" =>
                   hist.startsEmitted[id] = hist.startFrames[id]
            /\ parser = "strands" =>
                   /\ hist.startsEmitted[id] = Min(1, hist.startFrames[id])
                   /\ hist.deltasEmitted[id] = hist.startFrames[id] - hist.startsEmitted[id]
            /\ hist.startFrames[id] <= 1 => hist.startsEmitted[id] <= 1

\* C8 witness: the Schema-B parser saw a contentBlockStart for each of two
\* ids and input deltas after them.
C8_Witness ==
    /\ parser = "converse"
    /\ hist.valid
    /\ \A id \in ToolIds : hist.startFrames[id] = 1 /\ hist.startsEmitted[id] = 1
    /\ \E id \in ToolIds : hist.deltasEmitted[id] >= 1

\* C9: a line with the prefix whose payload is not well-formed JSON produces
\* no event, raises nothing, and leaves parser-local state (and all else) as
\* it was.
C9_MalformedDropped ==
    [][(LineStep /\ hist'.lastLine.prefix /\ hist'.lastLine.kind = "malformed")
          => LineIgnored]_vars

\* C9 witness: a malformed line reached parseConverseChunk while it
\* remembered a toolUseId and a segment existed.
C9_Witness ==
    /\ parser = "converse"
    /\ hist.lastLine.prefix
    /\ hist.lastLine.kind = "malformed"
    /\ currentToolUseId # ""
    /\ Len(segments) > 0
    /\ pc = "invoking"

\* C10: a line without the prefix "data: ", or with nothing after it, is
\* ignored: no event, no error, no change of parser-local state.
C10_NonDataIgnored ==
    [][(LineStep /\ (~hist'.lastLine.prefix \/ hist'.lastLine.kind = "blank"))
          => LineIgnored]_vars

\* C10 witness: a line without the prefix, whose rest is a well-formed text
\* frame, reached parseConverseChunk while it remembered a toolUseId.
C10_Witness ==
    /\ parser = "converse"
    /\ ~hist.lastLine.prefix
    /\ hist.lastLine.kind = "object"
    /\ hist.lastLine.text # {}
    /\ currentToolUseId # ""
    /\ pc = "invoking"

\* renderAssistantContent(): what ChatMessage shows of an assistant message,
\* its segments when it has any, its content otherwise.
RenderAssistantContent(msg) ==
    IF msg.hasSegments /\ msg.segments # <<>> THEN "segments" ELSE "content"

\* ---- turns one after the other: sendMessage, the stream, its end
MaxTurns == 2
MaxTurnFrames == 3

UserMessage == [role |-> "user", content |-> <<"q">>, hasSegments |-> FALSE, segments |-> <<>>]
AssistantResponse == [role |-> "assistant", content |-> <<>>, hasSegments |-> FALSE, segments |-> <<>>]

\* The lines of a turn's stream.
TurnLines ==
    {[ConverseBase EXCEPT !.toolUse = {ToolUse("t1", "calc")}],
     [ConverseBase EXCEPT !.input = {<<"x">>}],
     [ConverseBase EXCEPT !.text = {<<"a">>}],
     [ConverseBase EXCEPT !.stopReason = {"end_turn"}],
     [ConverseBase EXCEPT !.kind = "malformed", !.hasEvent = FALSE]}

\* The history at the start of a turn.
TurnHist(h, withToken) ==
    [InitHist EXCEPT
     !.turn = h.turn + 1,
     !.invoked = withToken,
     !.pattern = h.pattern,
     !.earlier = h.earlier \cup {id \in ToolIds : h.startsEmitted[id] > 0}]

CanSend ==
    /\ parser # "null"
    /\ pc \in {"idle", "done", "failed"}
    /\ hist.turn < MaxTurns

\* sendMessage up to the first line of the stream, a token at hand.
SendMessage ==
    /\ CanSend
    /\ error' = Null
    /\ messages' = messages \o <<UserMessage, AssistantResponse>>
    /\ isLoading' = TRUE
    /\ segments' = <<>>
    /\ toolCalls' = <<>>
    /\ toolCallMap' = [id \in ToolIds |-> 0]
    /\ pc' = "invoking"
    /\ partial' = NoLine
    /\ hist' = TurnHist(hist, TRUE)
    /\ UNCHANGED <<parser, currentToolUseId, startedIds, toolAtIndex, other>>

\* SendMessageNoToken with the token tested after client.invoke was called.
SendMessageNoTokenLate ==
    /\ CanSend
    /\ error' = Null
    /\ messages' = messages \o <<UserMessage, AssistantResponse>>
    /\ isLoading' = TRUE
    /\ segments' = <<>>
    /\ toolCalls' = <<>>
    /\ toolCallMap' = [id \in ToolIds |-> 0]
    /\ pc' = "invoking"
    /\ partial' = NoLine
    /\ hist' = [TurnHist(hist, TRUE) EXCEPT !.token = FALSE]
    /\ UNCHANGED <<parser, currentToolUseId, startedIds, toolAtIndex, other>>

\* sendMessage when auth.user?.access_token is missing: the throw in the try
\* block, the catch and the finally, with no await in between.
SendMessageNoToken ==
    /\ CanSend
    /\ error' = FailedToGetResponse
    /\ messages' = Catch(messages \o <<UserMessage, AssistantResponse>>)
    /\ isLoading' = FALSE
    /\ segments' = <<>>
    /\ toolCalls' = <<>>
    /\ toolCallMap' = [id \in ToolIds |-> 0]
    /\ pc' = "failed"
    /\ partial' = NoLine
    /\ hist' = [TurnHist(hist, FALSE) EXCEPT !.token = FALSE]
    /\ UNCHANGED <<parser, currentToolUseId, startedIds, toolAtIndex, other>>

CanReceive ==
    /\ pc = "invoking"
    /\ hist.frames < MaxTurnFrames

\* Bytes of a line arrive without its terminator: the driver keeps them.
ReceivePartial ==
    \E line \in TurnLines :
        /\ CanReceive
        /\ partial = NoLine
        /\ partial' = line
        /\ UNCHANGED <<segments, toolCalls, toolCallMap, messages, error, pc, parser,
                       currentToolUseId, startedIds, toolAtIndex, isLoading, other, hist>>

\* A line is complete: it goes through parseConverseChunk and the callback.
TurnLine ==
    \E line \in TurnLines :
        /\ CanReceive
        /\ partial \in {NoLine, line}
        /\ LET out == ParseConverseChunk(line, currentToolUseId)
               fed == Feed(Turn, hist, out.events)
           IN  /\ Delivered([fed.turn EXCEPT !.thrown = out.thrown],
                            [LineHist(fed.hist, line, out, TRUE) EXCEPT
                             !.resultSeen = @ \/ \E i \in DOMAIN out.events : out.events[i].type = "result"])
               /\ currentToolUseId' = out.local
        /\ partial' = NoLine
        /\ UNCHANGED <<parser, startedIds, toolAtIndex, isLoading, other>>

\* StreamClose that hands the line received in part to the parser.
StreamCloseFlush ==
    \E by \in {"upstream", "caller"} :
        /\ pc = "invoking"
        /\ LET out == IF partial = NoLine THEN ParserOut(<<>>, currentToolUseId)
                      ELSE ParseConverseChunk(partial, currentToolUseId)
               fed == Feed(Turn, hist, out.events)
           IN  /\ segments' = fed.turn.segments
               /\ toolCalls' = fed.turn.toolCalls
               /\ toolCallMap' = fed.turn.toolCallMap
               /\ messages' = fed.turn.messages
               /\ hist' = [fed.hist EXCEPT !.closed = by, !.dropped = partial]
               /\ currentToolUseId' = out.local
        /\ pc' = "done"
        /\ isLoading' = FALSE
        /\ partial' = NoLine
        /\ UNCHANGED <<error, parser, startedIds, toolAtIndex, other>>

\* The stream ends, closed upstream or abandoned by the caller: the driver
\* loop exits, client.invoke resolves, finally runs.
StreamClose ==
    \E by \in {"upstream", "caller"} :
        /\ pc = "invoking"
        /\ pc' = "done"
        /\ isLoading' = FALSE
        /\ partial' = NoLine
        /\ hist' = [hist EXCEPT !.closed = by, !.dropped = partial]
        /\ UNCHANGED <<segments, toolCalls, toolCallMap, messages, error, parser,
                       currentToolUseId, startedIds, toolAtIndex, other>>

\* The transport fails: client.invoke rejects, catch and finally run.
TransportFailure ==
    /\ pc = "invoking"
    /\ error' = FailedToGetResponse
    /\ messages' = Catch(messages)
    /\ pc' = "failed"
    /\ isLoading' = FALSE
    /\ partial' = NoLine
    /\ hist' = [hist EXCEPT !.closed = "failure", !.dropped = partial]
    /\ UNCHANGED <<segments, toolCalls, toolCallMap, parser,
                   currentToolUseId, startedIds, toolAtIndex, other>>

\* The component is mounted and the client constructed; nothing was sent.
InitTurns ==
    /\ segments = <<>>
    /\ toolCalls = <<>>
    /\ toolCallMap = [id \in ToolIds |-> 0]
    /\ messages = <<>>
    /\ error = Null
    /\ pc = "idle"
    /\ parser = "converse"
    /\ currentToolUseId = ""
    /\ startedIds = {}
    /\ toolAtIndex = NoToolAtIndex
    /\ isLoading = FALSE
    /\ partial = NoLine
    /\ other = NoOther
    /\ hist = InitHist

NextTurns ==
    \/ SendMessage
    \/ SendMessageNoToken
    \/ ReceivePartial
    \/ TurnLine
    \/ StreamClose
    \/ TransportFailure

SpecTurns == InitTurns /\ [][NextTurns]_vars

\* ---- mounting: loadConfig constructs the client
ConfigurationError == "Configuration error"

\* PARSERS: the registry, backend-pattern identifier -> parser.
PARSERS ==
    [p \in {"strands-single-agent", "langgraph-single-agent"} |->
        IF p = "strands-single-agent" THEN "converse" ELSE "langgraph"]

\* What aws-exports.json may hold as agentPattern ("": the field is absent).
ConfigPatterns == DOMAIN PARSERS \cup {"", "crewai-multi-agent"}

\* new AgentCoreClient that falls back to the first parser of the registry.
NewAgentCoreClientLenient(pattern) ==
    IF pattern \in DOMAIN PARSERS
    THEN [parser |-> PARSERS[pattern], thrown |-> FALSE]
    ELSE [parser |-> PARSERS["strands-single-agent"], thrown |-> FALSE]

\* new AgentCoreClient({ runtimeArn, region, pattern }): the parser is looked
\* up at construction; an identifier without an entry makes it throw.
NewAgentCoreClient(pattern) ==
    IF pattern \in DOMAIN PARSERS
    THEN [parser |-> PARSERS[pattern], thrown |-> FALSE]
    ELSE [parser |-> "null", thrown |-> TRUE]

\* loadConfig(): fetch /aws-exports.json, construct the client, setClient;
\* whatever is thrown on the way becomes a configuration error.
LoadConfig ==
    \E fetched \in {"ok", "not ok", "no arn"}, agentPattern \in ConfigPatterns :
        /\ pc = "mounting"
        /\ pc' = "idle"
        /\ LET pattern == IF agentPattern = "" THEN "strands-single-agent" ELSE agentPattern
               made == IF fetched = "ok" THEN NewAgentCoreClient(pattern)
                       ELSE [parser |-> "null", thrown |-> TRUE]
           IN  /\ parser' = made.parser
               /\ error' = IF made.thrown THEN ConfigurationError ELSE error
               /\ hist' = [hist EXCEPT !.pattern = IF fetched = "ok" THEN pattern ELSE @]
        /\ UNCHANGED <<segments, toolCalls, toolCallMap, messages, currentToolUseId,
                       startedIds, toolAtIndex, isLoading, partial, other>>

\* sendMessage without a client: if (!userMessage.trim() || !client) return
SendMessageNoClient ==
    /\ parser = "null"
    /\ pc \in {"mounting", "idle"}
    /\ ~hist.refused
    /\ hist' = [hist EXCEPT !.refused = TRUE]
    /\ UNCHANGED <<segments, toolCalls, toolCallMap, messages, error, pc, parser,
                   currentToolUseId, startedIds, toolAtIndex, isLoading, partial, other>>

\* The lines of a stream of the client's backend.
MountLines(p) ==
    IF p = "converse" THEN TurnLines
    ELSE {[LanggraphBase EXCEPT !.content = <<TextBlock(<<"A">>, 0)>>],
          [LanggraphBase EXCEPT !.content = <<ToolUseBlock("t1", "calc", 0)>>],
          [LanggraphBase EXCEPT !.content = <<PartialJsonBlock(<<"x">>, 0)>>],
          [LanggraphBase EXCEPT !.type = "tool", !.tool_call_id = "t1", !.toolContent = "2"]}

\* A line of the stream goes through the parser the client was constructed
\* with, and through the callback.
MountLine ==
    \E line \in MountLines(parser) :
        /\ CanReceive
        /\ parser \in {"converse", "langgraph"}
        /\ LET out == IF parser = "converse"
                      THEN ParseConverseChunk(line, currentToolUseId)
                      ELSE ParseLanggraphChunk(line, toolAtIndex)
               fed == Feed(Turn, hist, out.events)
               h2 == [fed.hist EXCEPT !.frames = @ + 1, !.lastLine = line, !.emitted = out.events]
           IN  /\ Delivered([fed.turn EXCEPT !.thrown = out.thrown], h2)
               /\ currentToolUseId' = IF parser = "converse" THEN out.local ELSE currentToolUseId
               /\ toolAtIndex' = IF parser = "langgraph" THEN out.local ELSE toolAtIndex
        /\ UNCHANGED <<parser, startedIds, isLoading, partial, other>>

\* The component is being mounted: no client yet.
InitMount ==
    /\ segments = <<>>
    /\ toolCalls = <<>>
    /\ toolCallMap = [id \in ToolIds |-> 0]
    /\ messages = <<>>
    /\ error = Null
    /\ pc = "mounting"
    /\ parser = "null"
    /\ currentToolUseId = ""
    /\ startedIds = {}
    /\ toolAtIndex = NoToolAtIndex
    /\ isLoading = FALSE
    /\ partial = NoLine
    /\ other = NoOther
    /\ hist = InitHist

NextMount ==
    \/ LoadConfig
    \/ SendMessageNoClient
    \/ SendMessage
    \/ MountLine
    \/ StreamClose

SpecMount == InitMount /\ [][NextMount]_vars

\* ---- two sendMessage calls in flight at once
MaxConcFrames == 4

ConcLines ==
    {[ConverseBase EXCEPT !.toolUse = {ToolUse("t1", "calc")}],
     [ConverseBase EXCEPT !.toolUse = {ToolUse("t2", "f")}],
     [ConverseBase EXCEPT !.input = {<<"x">>}],
     [ConverseBase EXCEPT !.text = {<<"a">>}]}

\* The second sendMessage's closure, over the shared messages.
OtherTurn ==
    [segments |-> other.segments, toolCalls |-> other.toolCalls,
     toolCallMap |-> other.toolCallMap, messages |-> messages, thrown |-> FALSE]

\* One line through a parser and an assembler that serve this turn only.
AloneStep(a, line) ==
    LET out == ParseConverseChunk(line, a.cur)
        fed == Feed([segments |-> a.segments, toolCalls |-> a.toolCalls,
                     toolCallMap |-> a.toolCallMap,
                     messages |-> <<UserMessage, AssistantResponse>>, thrown |-> FALSE],
                    InitHist, out.events).turn
    IN  [cur |-> out.local, segments |-> fed.segments, toolCalls |-> fed.toolCalls,
         toolCallMap |-> fed.toolCallMap, emitted |-> out.events]

CanParseConc ==
    /\ pc = "invoking"
    /\ other.active
    /\ hist.frames < MaxConcFrames

\* A line of the first turn's stream.
ConcLineA ==
    \E line \in ConcLines :
        /\ CanParseConc
        /\ LET out == ParseConverseChunk(line, currentToolUseId)
               fed == Feed(Turn, hist, out.events)
           IN  /\ Delivered([fed.turn EXCEPT !.thrown = out.thrown],
                            [LineHist(fed.hist, line, out, TRUE) EXCEPT
                             !.emittedOf["A"] = out.events,
                             !.alone["A"] = AloneStep(@, line)])
               /\ currentToolUseId' = out.local
        /\ UNCHANGED <<parser, startedIds, toolAtIndex, isLoading, partial, other>>

\* A line of the second turn's stream.
ConcLineB ==
    \E line \in ConcLines :
        /\ CanParseConc
        /\ LET out == ParseConverseChunk(line, currentToolUseId)
               fed == Feed(OtherTurn, hist, out.events)
           IN  /\ other' = [other EXCEPT !.segments = fed.turn.segments,
                                         !.toolCalls = fed.turn.toolCalls,
                                         !.toolCallMap = fed.turn.toolCallMap]
               /\ messages' = fed.turn.messages
               /\ hist' = [LineHist(fed.hist, line, out, TRUE) EXCEPT
                           !.emittedOf["B"] = out.events,
                           !.alone["B"] = AloneStep(@, line)]
               /\ currentToolUseId' = out.local
        /\ UNCHANGED <<segments, toolCalls, toolCallMap, error, pc, parser,
                       startedIds, toolAtIndex, isLoading, partial>>

\* startNewChat() while the streams are in flight: setMessages([]),
\* setError(null).
StartNewChat ==
    /\ pc = "invoking"
    /\ other.active
    /\ messages # <<>>
    /\ messages' = <<>>
    /\ error' = Null
    /\ hist' = [hist EXCEPT !.cleared = TRUE]
    /\ UNCHANGED <<segments, toolCalls, toolCallMap, pc, parser, currentToolUseId,
                   startedIds, toolAtIndex, isLoading, partial, other>>

\* handleSubmit ran twice: both sendMessage calls await client.invoke.
InitConcurrent ==
    /\ segments = <<>>
    /\ toolCalls = <<>>
    /\ toolCallMap = [id \in ToolIds |-> 0]
    /\ messages = <<UserMessage, AssistantResponse, UserMessage, AssistantResponse>>
    /\ error = Null
    /\ pc = "invoking"
    /\ parser = "converse"
    /\ currentToolUseId = ""
    /\ startedIds = {}
    /\ toolAtIndex = NoToolAtIndex
    /\ isLoading = TRUE
    /\ partial = NoLine
    /\ other = [NoOther EXCEPT !.active = TRUE]
    /\ hist = InitHist

NextConcurrent ==
    \/ ConcLineA
    \/ ConcLineB
    \/ StartNewChat

SpecConcurrent == InitConcurrent /\ [][NextConcurrent]_vars

\* A turn over Schema-A or Schema-B on lines holding the scenarios' values;
\* the module-level currentToolUseId is what an earlier turn left.
InitScenario ==
    /\ segments = <<>>
    /\ toolCalls = <<>>
    /\ toolCallMap = [id \in ToolIds |-> 0]
    /\ messages = <<[role |-> "user", content |-> <<"q">>, hasSegments |-> FALSE, segments |-> <<>>],
                    [role |-> "assistant", content |-> <<>>, hasSegments |-> FALSE, segments |-> <<>>]>>
    /\ error = Null
    /\ pc = "invoking"
    /\ parser \in {"converse", "strands"}
    /\ currentToolUseId \in (IF parser = "converse" THEN {"", "t1"} ELSE {""})
    /\ startedIds = {}
    /\ toolAtIndex = NoToolAtIndex
    /\ isLoading = TRUE
    /\ partial = NoLine
    /\ other = NoOther
    /\ hist = InitHist

NextScenario ==
    \/ ScenarioStrandsLine
    \/ ScenarioConverseLine

SpecScenario == InitScenario /\ [][NextScenario]_vars

\* ------------------------------------------------------------------ C16
\* C16: after the five Schema-A frames of scenario 1 there are exactly two
\* segments: the text "Hi", then the tool call t1/calc with input {"x":1},
\* result "2" and status complete.
C16_Scenario1 ==
    (parser = "strands" /\ hist.script = Scenario1) =>
        /\ Len(segments) = 2
        /\ segments[1] = TextSegment(Hi)
        /\ segments[2].type = "tool"
        /\ toolCalls[segments[2].toolCall] =
               [toolUseId |-> "t1", name |-> "calc", input |-> InputX1,
                result |-> {"2"}, status |-> "complete"]
        /\ error = Null

\* C16 witness: the five frames of scenario 1 went through the parser and
\* the callback, and the tool call has its result.
C16_Witness ==
    /\ parser = "strands"
    /\ hist.script = Scenario1
    /\ hist.n = 5
    /\ hist.resulted = {"t1"}

\* ------------------------------------------------------------------ C17
\* C17: after the four Schema-B frames of scenario 2 the tool call t2 is
\* complete with input "{}", and the segment list ends with the tool segment
\* of t2 followed by the text segment "done".
C17_Scenario2 ==
    (parser = "converse" /\ hist.script = Scenario2) =>
        /\ Len(segments) >= 2
        /\ segments[Len(segments)] = TextSegment(Done)
        /\ segments[Len(segments) - 1].type = "tool"
        /\ segments[Len(segments) - 1].toolCall = MapGet(Turn, "t2")
        /\ toolCalls[MapGet(Turn, "t2")].toolUseId = "t2"
        /\ toolCalls[MapGet(Turn, "t2")].status = "complete"
        /\ toolCalls[MapGet(Turn, "t2")].input = EmptyObject

\* C17 witness: the four frames of scenario 2 went through parseConverseChunk,
\* which had a toolUseId of an earlier turn left, and the callback.
C17_Witness ==
    /\ parser = "converse"
    /\ hist.script = Scenario2
    /\ hist.n = 4
    /\ currentToolUseId = "t2"
    /\ hist.startsEmitted["t2"] = 1

\* ------------------------------------------------------------------ C11
\* C11: a turn starts with no segments, an empty tool-call map and a parser
\* that remembers no toolUseId, and while the turn had no contentBlockStart
\* no tool_use_delta carries a toolUseId announced in an earlier turn.
C11_FreshTurn ==
    (parser = "converse" /\ pc = "invoking") =>
        /\ hist.frames = 0 =>
               /\ segments = <<>>
               /\ MapValues(Turn) = {}
               /\ currentToolUseId = ""
        /\ (\A id \in ToolIds : hist.startFrames[id] = 0) =>
               \A i \in DOMAIN hist.emitted :
                   hist.emitted[i].type = "tool_use_delta" =>
                       hist.emitted[i].toolUseId \notin hist.earlier

\* ------------------------------------------------------------------ C12
\* C12: with two turns in flight, the events emitted for each turn's last
\* line, and each turn's segments and tool calls, are what a parser and an
\* assembler serving that turn alone give for the turn's lines.
C12_AsIfAlone ==
    other.active =>
        /\ \A k \in {"A", "B"} : hist.emittedOf[k] = hist.alone[k].emitted
        /\ segments = hist.alone["A"].segments
        /\ toolCalls = hist.alone["A"].toolCalls
        /\ other.segments = hist.alone["B"].segments
        /\ other.toolCalls = hist.alone["B"].toolCalls

\* ------------------------------------------------------------------ C13
\* C13: a sendMessage that finds no access token never calls client.invoke,
\* hands no event to the callback, and ends with the error set, the apology
\* as the assistant message and isLoading false.
C13_MissingCredentialFatal ==
    ~hist.token =>
        /\ ~hist.invoked
        /\ hist.n = 0
        /\ hist.frames = 0
        /\ segments = <<>>
        /\ pc = "failed"
        /\ error = FailedToGetResponse
        /\ messages[Len(messages)].content = Apology
        /\ ~isLoading

\* C13 witness: a turn without a token after a turn that streamed a tool use.
C13_Witness ==
    /\ ~hist.token
    /\ hist.turn = 2
    /\ pc = "failed"
    /\ currentToolUseId = "t1"
    /\ Len(messages) = 4

\* ------------------------------------------------------------------ C14
\* C14: a turn whose stream closed without a result event having reached the
\* callback is surfaced as an error; a turn that ends without an error has
\* seen a result event.
C14_CloseWithoutResultIsError ==
    (pc = "done" /\ ~hist.resultSeen) => error # Null

\* ------------------------------------------------------------------ C20
\* C20: when the stream is closed upstream or abandoned by the caller, the
\* step that ends it and every later step of that turn invoke the callback
\* no more: no event for the line received in part, no terminal event, no
\* change to the parser's or the assembler's state, nor to the messages.
C20_NothingAfterClose ==
    [][(hist'.closed \in {"upstream", "caller"} /\ hist'.turn = hist.turn) =>
          /\ hist'.n = hist.n
          /\ hist'.frames = hist.frames
          /\ hist'.lastEv = hist.lastEv
          /\ pc' = "done"
          /\ partial' = NoLine
          /\ UNCHANGED <<segments, toolCalls, toolCallMap, messages, error, currentToolUseId>>]_vars

\* C20 witness: the stream ended while a text frame was received in part,
\* after an event had been delivered.
C20_Witness ==
    /\ hist.closed \in {"upstream", "caller"}
    /\ hist.dropped \in TurnLines
    /\ hist.dropped.text # {}
    /\ hist.n >= 1
    /\ pc = "done"

\* ------------------------------------------------------------------ C15
\* The event categories a Schema-B frame matches, by the sub-structures it
\* holds; a top-level result counts whatever else the frame holds.
ConverseMatchesAny(line) ==
    {ty \in {"text", "tool_use_start", "tool_use_delta", "result", "lifecycle"} :
        \/ ty = "text" /\ line.hasEvent /\ Truthy(line.text)
        \/ ty = "tool_use_start" /\ line.hasEvent /\ line.toolUse # {}
        \/ ty = "tool_use_delta" /\ line.hasEvent /\ Truthy(line.input)
        \/ ty = "result" /\ ((line.hasEvent /\ line.stopReason # {}) \/ line.result # "absent")
        \/ ty = "lifecycle" /\ line.hasEvent /\ line.messageStart}

\* The same, a top-level result counting only in a frame without an event object.
ConverseMatches(line) ==
    ConverseMatchesAny(line) \ (IF line.hasEvent /\ line.stopReason = {} THEN {"result"} ELSE {})

SpecPrecedence ==
    <<"tool_result", "tool_use_start", "tool_use_delta", "text", "message", "result", "lifecycle">>
TextFirstPrecedence ==
    <<"text", "tool_use_start", "tool_use_delta", "result", "lifecycle">>

Rank(order, ty) == CHOOSE i \in DOMAIN order : order[i] = ty
FirstOf(order, cats) == CHOOSE ty \in cats : \A o \in cats : Rank(order, ty) <= Rank(order, o)

\* The last line was a Schema-B frame: a data line holding a JSON object.
ConverseFrameParsed ==
    /\ parser = "converse"
    /\ hist.frames > 0
    /\ hist.lastLine.prefix
    /\ hist.lastLine.kind = "object"

\* C15 as stated: of the categories a frame matches the parser emits the
\* first in the order tool_result > tool_use_start > tool_use_delta > text >
\* message > result > lifecycle, and no event of a later category.
C15_SpecOrder ==
    ConverseFrameParsed /\ ConverseMatchesAny(hist.lastLine) # {} =>
        /\ hist.emitted # <<>>
        /\ \A i \in DOMAIN hist.emitted :
               hist.emitted[i].type = FirstOf(SpecPrecedence, ConverseMatchesAny(hist.lastLine))

\* C15 (amended): of the categories a Schema-B frame matches the parser
\* emits exactly one event, of the first category in the order text >
\* tool_use_start > tool_use_delta > result > lifecycle, a top-level result
\* counting only when the frame has no event object; a frame that matches
\* none emits nothing.
C15_TextFirstOrder ==
    ConverseFrameParsed =>
        IF ConverseMatches(hist.lastLine) = {}
        THEN hist.emitted = <<>>
        ELSE /\ Len(hist.emitted) = 1
             /\ hist.emitted[1].type = FirstOf(TextFirstPrecedence, ConverseMatches(hist.lastLine))

\* A frame holding text and a tool input delta was parsed, and emitted text.
C15_Witness ==
    /\ ConverseFrameParsed
    /\ {"text", "tool_use_delta"} \subseteq ConverseMatches(hist.lastLine)
    /\ Len(hist.emitted) = 1
    /\ hist.emitted[1].type = "text"

\* ------------------------------------------------------------------ C18
RECURSIVE ConcatTextEvents(_)
\* The content of the text events of evs, concatenated in emission order.
ConcatTextEvents(evs) ==
    IF evs = <<>> THEN <<>>
    ELSE (IF Head(evs).type = "text" THEN Head(evs).content ELSE <<>>)
         \o ConcatTextEvents(Tail(evs))

RECURSIVE ConcatTextBlocks(_)
\* The text of the text blocks of a content array, concatenated in array order.
ConcatTextBlocks(blocks) ==
    IF blocks = <<>> THEN <<>>
    ELSE (IF Head(blocks).type = "text" THEN Head(blocks).text ELSE <<>>)
         \o ConcatTextBlocks(Tail(blocks))

\* The last line was a Schema-C AI-chunk frame.
AIChunkParsed ==
    /\ parser = "langgraph"
    /\ hist.frames > 0
    /\ hist.lastLine.prefix
    /\ hist.lastLine.kind = "object"
    /\ hist.lastLine.type = "AIMessageChunk"

\* C18: the text events emitted for one Schema-C AI-chunk frame, concatenated
\* in emission order, equal the text of the frame's text blocks concatenated
\* in array order.
C18_MultiBlockText ==
    AIChunkParsed =>
        ConcatTextEvents(hist.emitted) = ConcatTextBlocks(hist.lastLine.content)

\* C18 witness: a frame with the text blocks "A" and "B" was parsed and its
\* text events concatenate to "AB".
C18_Witness ==
    /\ AIChunkParsed
    /\ hist.lastLine.content = <<TextBlock(<<"A">>, 0), TextBlock(<<"B">>, 1)>>
    /\ ConcatTextEvents(hist.emitted) = <<"A", "B">>

\* ------------------------------------------------------------------ C19
\* The toolUseIds of the events of type ty among evs.
IdsOfType(evs, ty) == {evs[i].toolUseId : i \in {j \in DOMAIN evs : evs[j].type = ty}}

\* C19: each line is parsed once, and when the step of a line is over every
\* event the parser emitted for it has reached the callback, in emission
\* order, and has been processed: the callback ran once per event, the last
\* event it saw is the line's last, and the text, the tool calls announced
\* and the tool results of the line are in the segments.
C19_DriverOrdering ==
    [][LineStep =>
          /\ hist'.n = hist.n + Len(hist'.emitted)
          /\ hist'.emitted # <<>> => hist'.lastEv = hist'.emitted[Len(hist'.emitted)]
          /\ hist'.textIn = hist.textIn \o ConcatTextEvents(hist'.emitted)
          /\ JoinText(segments') = JoinText(segments) \o ConcatTextEvents(hist'.emitted)
          /\ hist'.started = hist.started \cup IdsOfType(hist'.emitted, "tool_use_start")
          /\ hist'.resulted = hist.resulted \cup IdsOfType(hist'.emitted, "tool_result")
          /\ Len(toolCalls') = Len(toolCalls) + Len(SelectSeq(hist'.emitted,
                                       LAMBDA ev : ev.type = "tool_use_start"))]_vars

\* C19 witness: a line that emitted two events followed lines that emitted
\* events, and all of them reached the callback.
C19_Witness ==
    /\ hist.frames >= 2
    /\ Len(hist.emitted) >= 2
    /\ hist.n >= 3
    /\ hist.lastEv = hist.emitted[Len(hist.emitted)]
    /\ pc = "invoking"

\* ------------------------------------------------------------------ C21
\* C21: when the configured backend-pattern identifier has no parser in the
\* registry, constructing the client fails: a configuration error is set,
\* there is no client, and so no turn is started, no connection opened and
\* no line parsed.
C21_UnknownPatternFatal ==
    (pc # "mounting" /\ hist.pattern \notin DOMAIN PARSERS) =>
        /\ parser = "null"
        /\ error = ConfigurationError
        /\ hist.turn = 0
        /\ hist.frames = 0
        /\ hist.n = 0
        /\ pc = "idle"
        /\ messages = <<>>
        /\ ~isLoading

\* C21 witness: the configuration named an unregistered pattern, and
\* sendMessage was called afterwards.
C21_Witness ==
    /\ pc = "idle"
    /\ hist.pattern = "crewai-multi-agent"
    /\ hist.refused
    /\ error = ConfigurationError

\* ------------------------------------------------------------------ C22
\* A message event with role assistant was delivered.
AssistantMessageStep == StepOf({"message"}) /\ hist'.lastEv.role = "assistant"

\* C22: on a message event with role assistant every call the map holds
\* that is streaming becomes executing; every other call keeps its status;
\* the segments, the map and every call's input and result are unchanged.
C22_AssistantMessageSweep ==
    [][AssistantMessageStep =>
          /\ UNCHANGED <<segments, toolCallMap>>
          /\ Len(toolCalls') = Len(toolCalls)
          /\ \A i \in DOMAIN toolCalls :
                 toolCalls'[i] =
                     [toolCalls[i] EXCEPT !.status =
                         IF i \in MapValues(Turn) /\ @ = "streaming" THEN "executing" ELSE @]]_vars

\* C22 witness: an assistant message was processed while one call was
\* complete and another, streaming until then, went to executing.
C22_Witness ==
    /\ hist.lastEv.type = "message"
    /\ hist.lastEv.role = "assistant"
    /\ \E i, j \in DOMAIN toolCalls :
          /\ toolCalls[i].status = "complete"
          /\ toolCalls[j].status = "executing"
          /\ j \in MapValues(Turn)

\* ------------------------------------------------------------------ C23
\* C23: a tool_result for a toolUseId the map holds sets that call's result
\* to the event's and its status to complete, whatever the status was; no
\* other call changes, and the segments and the map stay as they are.
C23_ToolResultCompletes ==
    [][(StepOf({"tool_result"}) /\ MapGet(Turn, hist'.lastEv.toolUseId) # 0) =>
          /\ UNCHANGED <<segments, toolCallMap>>
          /\ Len(toolCalls') = Len(toolCalls)
          /\ \A i \in DOMAIN toolCalls :
                 toolCalls'[i] =
                     IF i = MapGet(Turn, hist'.lastEv.toolUseId)
                     THEN [toolCalls[i] EXCEPT !.result = {hist'.lastEv.result},
                                               !.status = "complete"]
                     ELSE toolCalls[i]]_vars

\* C23 witness: a second tool_result replaced the result of a call that was
\* complete already, while another call was still streaming.
C23_Witness ==
    /\ hist.lastEv.type = "tool_result"
    /\ hist.n >= 4
    /\ MapGet(Turn, hist.lastEv.toolUseId) # 0
    /\ toolCalls[MapGet(Turn, hist.lastEv.toolUseId)].result = {"ok"}
    /\ toolCalls[MapGet(Turn, hist.lastEv.toolUseId)].status = "complete"
    /\ \E i \in DOMAIN toolCalls : toolCalls[i].status = "streaming"

\* ------------------------------------------------------------------ C24
\* s is an initial part of t.
IsPrefix(s, t) == Len(s) <= Len(t) /\ SubSeq(t, 1, Len(s)) = s

\* C24: for a toolUseId started exactly once, the call's input is the input
\* of the tool_use_delta events for that id delivered after the start,
\* concatenated in arrival order: empty at the start, and from then on only
\* extended at its end.
C24_InputAccumulates ==
    [][\A id \in ToolIds :
          hist'.startCount[id] = 1 =>
              /\ MapGet(Turn, id)' # 0
              /\ toolCalls'[toolCallMap'[id]].input = hist'.deltaIn[id]
              /\ hist.startCount[id] = 0 => toolCalls'[toolCallMap'[id]].input = <<>>
              /\ hist.startCount[id] = 1 =>
                     /\ toolCallMap'[id] = toolCallMap[id]
                     /\ IsPrefix(toolCalls[toolCallMap[id]].input,
                                 toolCalls'[toolCallMap'[id]].input)]_vars

\* C24 witness: four events, no text among them, t1 started once, and two
\* different deltas after its start make up the call's input, in their order.
C24_Witness ==
    /\ hist.startCount["t1"] = 1
    /\ hist.n = 4
    /\ hist.sinceText = {"tool_use_delta", "tool_use_start"}
    /\ toolCalls[MapGet(Turn, "t1")].input = <<"x", "y">>

\* ------------------------------------------------------------------ C25
\* A message event with role user, a result or a lifecycle event was delivered.
PassiveStep ==
    \/ StepOf({"result", "lifecycle"})
    \/ StepOf({"message"}) /\ hist'.lastEv.role = "user"

\* C25: message events with role user, result and lifecycle events change
\* neither the segments, nor the map, nor any call; a call without a
\* tool_result and without a later text event is therefore still streaming
\* or executing after them.
C25_PassiveEvents ==
    [][PassiveStep =>
          /\ UNCHANGED <<segments, toolCalls, toolCallMap, messages>>
          /\ \A id \in hist'.started \ (hist'.resulted \cup hist'.textAfter) :
                 \A i \in CallsOf(id)' :
                     toolCalls'[i].status \in {"streaming", "executing"}]_vars

\* C25 witness: a result event came while one call was streaming and
\* another executing.
C25_Witness ==
    /\ hist.lastEv.type = "result"
    /\ \E i, j \in DOMAIN toolCalls :
          /\ toolCalls[i].status = "streaming"
          /\ toolCalls[j].status = "executing"

\* ------------------------------------------------------------------ C26
\* No two neighbours in the segment list are both text segments.
NoAdjacentText(segs) ==
    \A i \in 1..(Len(segs) - 1) : ~(segs[i].type = "text" /\ segs[i + 1].type = "text")

\* C26: a text event appends its content to the last segment when that is a
\* text segment, and otherwise appends exactly one text segment holding it;
\* the segment list never has two adjacent text segments.
C26_TextAppendOrPush ==
    [][/\ StepOf({"text"}) =>
             IF LastIsType(Turn, "text")
             THEN /\ Len(segments') = Len(segments)
                  /\ segments'[Len(segments)].type = "text"
                  /\ segments'[Len(segments)].content
                         = segments[Len(segments)].content \o hist'.lastEv.content
                  /\ SubSeq(segments', 1, Len(segments) - 1) = SubSeq(segments, 1, Len(segments) - 1)
             ELSE segments' = Append(segments, TextSegment(hist'.lastEv.content))
       /\ NoAdjacentText(segments')]_vars

\* C26 witness: two text events in a row went into one segment that follows
\* a tool segment, itself after a text segment.
C26_Witness ==
    /\ hist.lastEv.type = "text"
    /\ hist.n = 4
    /\ Len(segments) = 3
    /\ segments[1].type = "text"
    /\ segments[2].type = "tool"
    /\ segments[3].type = "text"
    /\ Len(segments[3].content) = 2

\* ------------------------------------------------------------------ C27
\* C27: over valid frames, once a contentBlockStart with a toolUse was
\* processed, every tool_use_delta the Schema-B parser emits carries the
\* toolUseId of the last such frame: after starts for X and then Y the
\* deltas go to Y.
C27_DeltaCarriesLastStart ==
    (parser = "converse" /\ hist.valid /\ hist.lastAnnounced # "") =>
        /\ currentToolUseId = hist.lastAnnounced
        /\ \A i \in DOMAIN hist.emitted :
               hist.emitted[i].type = "tool_use_delta" =>
                   hist.emitted[i].toolUseId = hist.lastAnnounced

\* C27 witness: after starts for one id and then the other, two input
\* deltas were emitted, the last one for the id started last.
C27_Witness ==
    /\ parser = "converse"
    /\ hist.valid
    /\ hist.frames = 4
    /\ \A id \in ToolIds : hist.startFrames[id] = 1
    /\ hist.deltasEmitted[hist.lastAnnounced] = 2
    /\ Len(hist.emitted) = 1
    /\ hist.emitted[1].type = "tool_use_delta"
    /\ hist.emitted[1].toolUseId = hist.lastAnnounced

\* ------------------------------------------------------------------ C28
\* C28: the Schema-B parser emits no tool_use_delta while it remembers no
\* toolUseId: none of the tool_use_delta events it emits has an empty
\* toolUseId.
C28_NoDeltaWithoutId ==
    parser = "converse" =>
        \A i \in DOMAIN hist.emitted :
            hist.emitted[i].type = "tool_use_delta" => hist.emitted[i].toolUseId # ""

\* ------------------------------------------------------------------ C29
\* C29: the Schema-B parser emits neither tool_result nor message; in its
\* turn no call has a result or is executing, and a call becomes complete
\* only in the step of a line that emitted a text event.
C29_NoResultNoMessage ==
    [][(parser = "converse" /\ LineStep) =>
          /\ \A i \in DOMAIN hist'.emitted :
                 hist'.emitted[i].type \notin {"tool_result", "message"}
          /\ \A i \in DOMAIN toolCalls' :
                 /\ toolCalls'[i].result = {}
                 /\ toolCalls'[i].status # "executing"
                 /\ (toolCalls'[i].status = "complete"
                        /\ (i \notin DOMAIN toolCalls \/ toolCalls[i].status # "complete")) =>
                        \E j \in DOMAIN hist'.emitted : hist'.emitted[j].type = "text"]_vars

\* C29 witness: a messageStart frame was parsed while one call was complete
\* and another still streaming.
C29_Witness ==
    /\ parser = "converse"
    /\ hist.lastLine.prefix
    /\ hist.lastLine.kind = "object"
    /\ hist.lastLine.messageStart
    /\ hist.emitted = <<LifecycleEvent("message_start")>>
    /\ \E i, j \in DOMAIN toolCalls :
          /\ toolCalls[i].status = "complete"
          /\ toolCalls[j].status = "streaming"

\* ------------------------------------------------------------------ C30
\* The last line was a frame whose only sub-structure is a result field.
ResultFrameParsed ==
    /\ parser \in {"converse", "strands"}
    /\ hist.frames > 0
    /\ hist.lastLine.prefix
    /\ hist.lastLine.kind = "object"
    /\ hist.lastLine.result # "absent"
    /\ parser = "converse" => ~hist.lastLine.hasEvent

\* C30: a frame carrying a result field yields exactly one result event,
\* whose stopReason is the nested stop_reason when there is one and
\* "end_turn" when there is none.
C30_ResultDefault ==
    ResultFrameParsed =>
        hist.emitted = <<ResultEvent(IF hist.lastLine.stop_reason # {}
                                     THEN The(hist.lastLine.stop_reason)
                                     ELSE "end_turn")>>

\* ------------------------------------------------------------------ C31
\* C31: when a call the map holds is streaming or executing, the last
\* segment is a tool segment; when the last segment is a text segment, every
\* call the map holds is complete.
C31_OpenCallMeansToolLast ==
    /\ (\E i \in MapValues(Turn) : toolCalls[i].status \in {"streaming", "executing"}) =>
           LastIsType(Turn, "tool")
    /\ LastIsType(Turn, "text") =>
           \A i \in MapValues(Turn) : toolCalls[i].status = "complete"

\* C31 witness: a text event followed two tool segments and left both calls
\* of the map complete.
C31_Witness ==
    /\ hist.lastEv.type = "text"
    /\ hist.n >= 3
    /\ Len(segments) = 3
    /\ LastIsType(Turn, "text")
    /\ Cardinality(MapValues(Turn)) = 2
    /\ \A i \in MapValues(Turn) : toolCalls[i].status = "complete"

\* ------------------------------------------------------------------ C32
\* The number of toolUseIds the map has an entry for.
MapSize == Cardinality({id \in ToolIds : toolCallMap[id] # 0})

\* The positions of the tool segments.
ToolSegments == {i \in DOMAIN segments : segments[i].type = "tool"}

\* C32: tool segments and map entries correspond one to one: there are as
\* many of the one as of the other, and the call of every tool segment is
\* the call the map holds under that call's toolUseId.
C32_SegmentsMatchMap ==
    /\ Cardinality(ToolSegments) = MapSize
    /\ \A i \in ToolSegments :
           segments[i].toolCall = toolCallMap[toolCalls[segments[i].toolCall].toolUseId]

\* ------------------------------------------------------------------ C33
\* C33: a tool_use_delta for a toolUseId the map holds appends its input to
\* that call's input whatever the call's status, and changes neither its
\* status nor its result, nor any other call, segment or map entry.
C33_DeltaWhateverStatus ==
    [][(StepOf({"tool_use_delta"}) /\ MapGet(Turn, hist'.lastEv.toolUseId) # 0) =>
          /\ UNCHANGED <<segments, toolCallMap>>
          /\ Len(toolCalls') = Len(toolCalls)
          /\ \A i \in DOMAIN toolCalls :
                 toolCalls'[i] =
                     IF i = MapGet(Turn, hist'.lastEv.toolUseId)
                     THEN [toolCalls[i] EXCEPT !.input = @ \o hist'.lastEv.input]
                     ELSE toolCalls[i]]_vars

\* C33 witness: a delta grew the input of a call that a tool_result had
\* completed before.
C33_Witness ==
    /\ hist.lastEv.type = "tool_use_delta"
    /\ MapGet(Turn, hist.lastEv.toolUseId) # 0
    /\ hist.lastEv.toolUseId \in hist.resulted
    /\ toolCalls[MapGet(Turn, hist.lastEv.toolUseId)].status = "complete"
    /\ toolCalls[MapGet(Turn, hist.lastEv.toolUseId)].result # {}
    /\ Len(toolCalls[MapGet(Turn, hist.lastEv.toolUseId)].input) = 2

\* ------------------------------------------------------------------ C34
\* C34: when client.invoke fails, the failure handler sets the error, puts
\* the apology in the content of the last message and leaves the rest of
\* that message, its published segments included, and every other message
\* as they were; whenever sendMessage has finished, isLoading is false.
C34_FailureHandler ==
    [][/\ (hist.closed = "no" /\ hist'.closed = "failure") =>
             /\ error' = FailedToGetResponse
             /\ messages' = [messages EXCEPT ![Len(messages)].content = Apology]
             /\ messages'[Len(messages')].segments = messages[Len(messages)].segments
             /\ messages'[Len(messages')].hasSegments = messages[Len(messages)].hasSegments
             /\ pc' = "failed"
       /\ pc' \in {"done", "failed"} => ~isLoading']_vars

\* C34 witness: the transport failed in the second turn after a text and a
\* tool segment were published; the message keeps them, and they are what
\* is shown.
C34_Witness ==
    /\ hist.closed = "failure"
    /\ hist.turn = 2
    /\ pc = "failed"
    /\ ~isLoading
    /\ error = FailedToGetResponse
    /\ messages[Len(messages)].content = Apology
    /\ Len(messages[Len(messages)].segments) = 2
    /\ Len(segments) = 2
    /\ RenderAssistantContent(messages[Len(messages)]) = "segments"

\* ------------------------------------------------------------------ C35
\* C35: with two turns in flight each turn's updates go to the assistant
\* placeholder created for that turn: as long as the four messages are
\* there, the first turn's placeholder shows the first turn's segments and
\* the second turn's placeholder the second turn's, and the user messages
\* are as they were sent.
C35_OwnPlaceholder ==
    (other.active /\ ~hist.cleared) =>
        /\ Len(messages) = 4
        /\ messages[1] = UserMessage
        /\ messages[3] = UserMessage
        /\ messages[2].content = JoinText(segments)
        /\ Len(messages[2].segments) = Len(segments)
        /\ messages[4].content = JoinText(other.segments)
        /\ Len(messages[4].segments) = Len(other.segments)

====
